---------------------------- MODULE Spec2Model ----------------------------
(***************************************************************************)
(* A model of recap's git service (src-tauri/src/git.rs): the repository   *)
(* it reads (commits, trees, references, HEAD, index, working tree) and    *)
(* the operations it offers on it.                                         *)
(*                                                                         *)
(* Specifications:                                                         *)
(*   Spec          a repository with a fixed history, edited by the user   *)
(*                 and switched by checkout_branch                         *)
(*   SpecStatus    get_working_changes' classification of one status entry *)
(*   SpecBranches  list_branches over drawn sets of references             *)
(*   SpecWalk      list_commits over drawn histories                       *)
(*   SpecFiles     get_commit_files over drawn commits                     *)
(***************************************************************************)
EXTENDS Integers, Sequences, FiniteSets, TLC

VARIABLES
    head,       \* HEAD: symbolic (names a local branch) or detached (a commit)
    index,      \* the staging area: path -> entry
    worktree,   \* the files on disk: path -> entry
    input,      \* the drawn input of a specification that has one
    result      \* what the last operation returned

repoVars == <<head, index, worktree>>

vars == <<head, index, worktree, input, result>>

(***************************************************************************)
(* Bounds                                                                  *)
(***************************************************************************)
\* Blob contents are 1..MaxData; the fixed history commits only 1 and 2,
\* so larger contents exist nowhere but in the index or the working tree.
MaxData == 3

(***************************************************************************)
(* Tree entries                                                            *)
(***************************************************************************)
Absent == [kind |-> "none", data |-> 0]

Blob(d) == [kind |-> "blob", data |-> d]

Link(d) == [kind |-> "link", data |-> d]

Entries == {Absent} \cup {Blob(d) : d \in 1..MaxData} \cup {Link(1)}

Paths == {"a.txt", "b.log"}

\* The working tree's .gitignore holds "*.log": an untracked b.log is ignored.
IgnoredPaths == {"b.log"}

Trees == [Paths -> Entries]

EmptyTree == [p \in Paths |-> Absent]

MkTree(a, b) == [p \in Paths |-> IF p = "a.txt" THEN a ELSE b]

(***************************************************************************)
(* The repository's history and references (fixed under Spec)              *)
(***************************************************************************)
Commits == {"c1", "c2", "c3", "c4", "c5"}

CommitParents ==
    [c \in Commits |->
        CASE c = "c1" -> <<>>
          [] c = "c2" -> <<"c1">>
          [] c = "c3" -> <<"c2">>
          [] c = "c4" -> <<"c2">>
          [] c = "c5" -> <<"c3", "c4">>]

CommitTree ==
    [c \in Commits |->
        CASE c = "c1" -> MkTree(Blob(1), Absent)
          [] c = "c2" -> MkTree(Blob(1), Blob(1))
          [] c = "c3" -> MkTree(Blob(2), Blob(1))
          [] c = "c4" -> MkTree(Absent, Link(1))
          [] c = "c5" -> MkTree(Blob(2), Link(1))]

\* refs/heads/*
LocalBranches == [n \in {"main", "feature"} |-> IF n = "main" THEN "c3" ELSE "c4"]

\* refs/remotes/*
RemoteBranches == [n \in {"origin/main", "origin/dev"} |-> IF n = "origin/main" THEN "c2" ELSE "c5"]

\* HEAD names a branch that does not exist yet (git checkout --orphan).
UnbornName == "orphan"

SymbolicHead(n) == [kind |-> "symbolic", target |-> n]

DetachedHead(c) == [kind |-> "detached", target |-> c]

Heads ==
    {SymbolicHead(n) : n \in DOMAIN LocalBranches \cup {UnbornName}}
        \cup {DetachedHead(c) : c \in Commits}

\* repo.head(): Err for an unborn branch, else the commit HEAD resolves to.
HeadResolves(h) == h.kind = "detached" \/ h.target \in DOMAIN LocalBranches

HeadCommit(h) == IF h.kind = "detached" THEN h.target ELSE LocalBranches[h.target]

\* The tree the index is compared with: HEAD's, or the empty tree when unborn.
HeadTree(h) == IF HeadResolves(h) THEN CommitTree[HeadCommit(h)] ELSE EmptyTree

(***************************************************************************)
(* repo.statuses(None): per path, the flags of HEAD -> index and of        *)
(* index -> working tree (no rename detection, ignored files included).    *)
(***************************************************************************)
IndexFlags(h, i) ==
    IF h = i THEN {}
    ELSE IF h = Absent THEN {"INDEX_NEW"}
    ELSE IF i = Absent THEN {"INDEX_DELETED"}
    ELSE IF h.kind # i.kind THEN {"INDEX_TYPECHANGE"}
    ELSE {"INDEX_MODIFIED"}

WtFlags(p, i, w) ==
    IF i = w THEN {}
    ELSE IF i = Absent THEN (IF p \in IgnoredPaths THEN {"IGNORED"} ELSE {"WT_NEW"})
    ELSE IF w = Absent THEN {"WT_DELETED"}
    ELSE IF i.kind # w.kind THEN {"WT_TYPECHANGE"}
    ELSE {"WT_MODIFIED"}

StatusOf(p, h, i, w) == IndexFlags(h[p], i[p]) \cup WtFlags(p, i[p], w[p])

\* The status list: the paths whose status is not empty.
StatusPaths(h, i, w) == {p \in Paths : StatusOf(p, h, i, w) # {}}

(***************************************************************************)
(* get_current_branch                                                      *)
(***************************************************************************)
Ok(v) == [ok |-> TRUE, value |-> v]

Err(e) == [ok |-> FALSE, value |-> e]

ErrGetHead == "Failed to get HEAD"

\* A commit id is written as its 40 hexadecimal digits; the model's commit
\* names stand for them.
OidString(c) == c

\* A mutant of get_current_branch: a detached HEAD is named after a branch,
\* when there is one.
get_current_branch_named(h, locals) ==
    IF h.kind = "symbolic"
    THEN IF h.target \in locals THEN Ok(h.target) ELSE Err(ErrGetHead)
    ELSE IF locals # {} THEN Ok(CHOOSE n \in locals : TRUE)
    ELSE Ok(OidString(h.target))

\* locals: the names of the branches of refs/heads. repo.head() fails when
\* HEAD names a branch that does not exist (an unborn branch).
get_current_branch(h, locals) ==
    IF h.kind = "symbolic"
    THEN IF h.target \in locals THEN Ok(h.target) ELSE Err(ErrGetHead)
    ELSE Ok(OidString(h.target))

(***************************************************************************)
(* checkout_branch                                                         *)
(***************************************************************************)
ErrUncommitted == "Cannot switch branches: you have uncommitted changes that would be overwritten"

ErrBranchNotFound == "Branch not found"

ErrSetHead == "Failed to set HEAD"

ErrCheckout == "Failed to checkout"

\* A mutant of blocking_status: staged deletions no longer block.
blocking_status_no_index_deleted(status) ==
    \/ "WT_MODIFIED" \in status
    \/ "WT_DELETED" \in status
    \/ "INDEX_MODIFIED" \in status
    \/ "INDEX_NEW" \in status

\* A mutant of blocking_status: untracked files block as well.
blocking_status_with_wt_new(status) ==
    \/ "WT_MODIFIED" \in status
    \/ "WT_DELETED" \in status
    \/ "INDEX_MODIFIED" \in status
    \/ "INDEX_DELETED" \in status
    \/ "INDEX_NEW" \in status
    \/ "WT_NEW" \in status

\* A mutant of blocking_status: a change of the kind of the file on disk
\* blocks as well.
blocking_status_with_typechange(status) ==
    \/ "WT_MODIFIED" \in status
    \/ "WT_DELETED" \in status
    \/ "INDEX_MODIFIED" \in status
    \/ "INDEX_DELETED" \in status
    \/ "INDEX_NEW" \in status
    \/ "WT_TYPECHANGE" \in status

\* The closure of the guard: does this entry's status block the checkout?
blocking_status(status) ==
    \/ "WT_MODIFIED" \in status
    \/ "WT_DELETED" \in status
    \/ "INDEX_MODIFIED" \in status
    \/ "INDEX_DELETED" \in status
    \/ "INDEX_NEW" \in status

\* A mutant of has_changes: only the files on disk are looked at, not the
\* index.
has_changes_on_disk(h, i, w) ==
    \E p \in StatusPaths(h, i, w) :
        StatusOf(p, h, i, w) \cap {"WT_MODIFIED", "WT_DELETED"} # {}

has_changes(h, i, w) ==
    \E p \in StatusPaths(h, i, w) : blocking_status(StatusOf(p, h, i, w))

NoRef == [ns |-> "none", name |-> "", tip |-> ""]

LocalRef(n) == [ns |-> "heads", name |-> n, tip |-> LocalBranches[n]]

RemoteRef(n) == [ns |-> "remotes", name |-> n, tip |-> RemoteBranches[n]]

\* A mutant of find_branch: the branch type is not given, and a
\* remote-tracking branch is found as well.
find_branch_any_type(name) ==
    IF name \in DOMAIN LocalBranches THEN LocalRef(name)
    ELSE IF name \in DOMAIN RemoteBranches THEN RemoteRef(name)
    ELSE NoRef

\* repo.find_branch(name, BranchType::Local): the reference, or NoRef
find_branch(name) ==
    IF name \in DOMAIN LocalBranches THEN LocalRef(name) ELSE NoRef

\* repo.set_head(refname): HEAD names a branch of refs/heads, and is
\* detached at the tip of any other reference.
set_head(ref) ==
    IF ref.ns = "heads" THEN SymbolicHead(ref.name) ELSE DetachedHead(ref.tip)

\* checkout_tree with force(), the index. HEAD already names the target, so
\* the checkout's baseline is the target tree itself: a path is rewritten
\* (and its index entry with it) only where the file on disk differs from the
\* target; the entry of a file that is removed is dropped.
force_checkout_index(target, i, w) ==
    [p \in Paths |->
        IF target[p] = Absent THEN Absent
        ELSE IF w[p] = target[p] THEN i[p]
        ELSE target[p]]

\* A mutant of force_checkout_worktree: a safe checkout, which keeps every
\* file that is not tracked in the index.
force_checkout_worktree_safe(target, i, w) ==
    [p \in Paths |->
        IF i[p] = Absent /\ w[p] # Absent THEN w[p] ELSE target[p]]

\* checkout_tree with force(), the working tree: every file of the target is
\* written whatever is on disk; a file the target lacks is removed when the
\* index tracks it and left alone otherwise.
force_checkout_worktree(target, i, w) ==
    [p \in Paths |->
        IF target[p] # Absent THEN target[p]
        ELSE IF i[p] # Absent THEN Absent
        ELSE w[p]]

Faults == {"none", "set_head", "checkout_tree"}

CheckoutNames == DOMAIN LocalBranches \cup DOMAIN RemoteBranches \cup {"nonexistent"}

\* A mutant of checkout_branch: when the checkout of the tree fails, HEAD
\* and the working tree are put back as they were.
checkout_branch_rolls_back(name, fault) ==
    LET h == HeadTree(head)
        branch == find_branch(name)
        target == CommitTree[branch.tip]
        \* fault is recorded only when the call got as far as the backend step
        ret(r, f) == [op |-> "checkout_branch", arg |-> name, fault |-> f, ret |-> r]
    IN  IF has_changes(h, index, worktree)
        THEN /\ result' = ret(ErrUncommitted, "none")
             /\ UNCHANGED <<repoVars, input>>
        ELSE IF branch = NoRef
        THEN /\ result' = ret(ErrBranchNotFound, "none")
             /\ UNCHANGED <<repoVars, input>>
        ELSE IF fault = "set_head"
        THEN /\ result' = ret(ErrSetHead, fault)
             /\ UNCHANGED <<repoVars, input>>
        ELSE IF fault = "checkout_tree"
        THEN /\ result' = ret(ErrCheckout, fault)
             /\ UNCHANGED <<repoVars, input>>
        ELSE /\ head' = set_head(branch)
             /\ index' = force_checkout_index(target, index, worktree)
             /\ worktree' = force_checkout_worktree(target, index, worktree)
             /\ result' = ret("Ok", fault)
             /\ UNCHANGED input

checkout_branch(name, fault) ==
    LET h == HeadTree(head)
        branch == find_branch(name)
        target == CommitTree[branch.tip]
        \* fault is recorded only when the call got as far as the backend step
        ret(r, f) == [op |-> "checkout_branch", arg |-> name, fault |-> f, ret |-> r]
    IN  IF has_changes(h, index, worktree)
        THEN /\ result' = ret(ErrUncommitted, "none")
             /\ UNCHANGED <<repoVars, input>>
        ELSE IF branch = NoRef
        THEN /\ result' = ret(ErrBranchNotFound, "none")
             /\ UNCHANGED <<repoVars, input>>
        ELSE IF fault = "set_head"
        THEN /\ result' = ret(ErrSetHead, fault)
             /\ UNCHANGED <<repoVars, input>>
        ELSE IF fault = "checkout_tree"
        THEN \* the checkout stopped after writing the paths of done
             /\ \E done \in SUBSET Paths :
                   /\ done # Paths
                   /\ worktree' = [p \in Paths |->
                         IF p \in done
                         THEN force_checkout_worktree(target, index, worktree)[p]
                         ELSE worktree[p]]
             /\ head' = set_head(branch)
             /\ result' = ret(ErrCheckout, fault)
             /\ UNCHANGED <<index, input>>
        ELSE /\ head' = set_head(branch)
             /\ index' = force_checkout_index(target, index, worktree)
             /\ worktree' = force_checkout_worktree(target, index, worktree)
             /\ result' = ret("Ok", fault)
             /\ UNCHANGED input

(***************************************************************************)
(* Line statistics of a diff                                               *)
(***************************************************************************)
\* The lines of an entry: blob d is a first line every blob shares, then
\* d - 1 lines of its own; a link is the one line of its target.
\* A file given by its bytes, and a symbolic link given by the bytes of its
\* target: both are blobs in a tree.
File(bytes) == [kind |-> "file", bytes |-> bytes]

Symlink(bytes) == [kind |-> "symlink", bytes |-> bytes]

\* The number of leading bytes examined for a zero byte.
BinaryCheckLen == 8000

RECURSIVE SplitLines(_)
\* The lines of a sequence of bytes, each with its line feed, the last one
\* without when the bytes do not end in one.
SplitLines(bytes) ==
    IF bytes = <<>> THEN <<>>
    ELSE LET feeds == {k \in 1..Len(bytes) : bytes[k] = 10}
         IN  IF feeds = {} THEN <<bytes>>
             ELSE LET k == CHOOSE x \in feeds : \A y \in feeds : x <= y
                  IN  <<SubSeq(bytes, 1, k)>> \o SplitLines(SubSeq(bytes, k + 1, Len(bytes)))

\* The bytes an entry holds as a blob.
BlobBytes(e) == IF e.kind \in {"file", "symlink"} THEN e.bytes ELSE <<>>

\* A mutant of contains_nul: the whole of the bytes is searched.
contains_nul_anywhere(bytes) ==
    \E k \in 1..Len(bytes) : bytes[k] = 0

\* The binary test of a patch: a zero byte among the leading bytes.
contains_nul(bytes) ==
    \E k \in 1..Len(bytes) : k <= BinaryCheckLen /\ bytes[k] = 0

\* Whether the patch of two entries is a binary patch.
patch_is_binary(old, new) ==
    contains_nul(BlobBytes(old)) \/ contains_nul(BlobBytes(new))

TextLines(e) ==
    IF e.kind = "blob" THEN <<0>> \o [k \in 1..(e.data - 1) |-> e.data]
    ELSE IF e.kind = "link" THEN <<-e.data>>
    ELSE IF e.kind \in {"file", "symlink"} THEN SplitLines(e.bytes)
    ELSE <<>>

RECURSIVE LcsLen(_, _)
\* The length of a longest common subsequence of two sequences of lines.
LcsLen(a, b) ==
    IF a = <<>> \/ b = <<>> THEN 0
    ELSE IF Head(a) = Head(b) THEN 1 + LcsLen(Tail(a), Tail(b))
    ELSE LET x == LcsLen(Tail(a), b)
             y == LcsLen(a, Tail(b))
         IN  IF x >= y THEN x ELSE y

\* <<insertions, deletions>> of the patch that turns old into new.
LineStats(old, new) ==
    LET l == LcsLen(TextLines(old), TextLines(new))
    IN  IF patch_is_binary(old, new) THEN <<0, 0>>
        ELSE <<Len(TextLines(new)) - l, Len(TextLines(old)) - l>>

(***************************************************************************)
(* get_working_changes                                                     *)
(***************************************************************************)
None == <<>>

Some(x) == <<x>>

ChangedFile(path, status, additions, deletions, old_path) ==
    [path |-> path, status |-> status, additions |-> additions,
     deletions |-> deletions, old_path |-> old_path]

\* A mutant of file_status: a modification is tested before a deletion.
file_status_modified_first(status) ==
    IF "WT_NEW" \in status \/ "INDEX_NEW" \in status
    THEN IF "WT_NEW" \in status /\ "INDEX_NEW" \notin status
         THEN "Untracked" ELSE "Added"
    ELSE IF "WT_MODIFIED" \in status \/ "INDEX_MODIFIED" \in status
    THEN "Modified"
    ELSE IF "WT_DELETED" \in status \/ "INDEX_DELETED" \in status
    THEN "Deleted"
    ELSE IF "WT_RENAMED" \in status \/ "INDEX_RENAMED" \in status
    THEN "Renamed"
    ELSE "Skip"

\* The status of one entry of the status list; "Skip" is the continue.
file_status(status) ==
    IF "WT_NEW" \in status \/ "INDEX_NEW" \in status
    THEN IF "WT_NEW" \in status /\ "INDEX_NEW" \notin status
         THEN "Untracked" ELSE "Added"
    ELSE IF "WT_DELETED" \in status \/ "INDEX_DELETED" \in status
    THEN "Deleted"
    ELSE IF "WT_MODIFIED" \in status \/ "INDEX_MODIFIED" \in status
    THEN "Modified"
    ELSE IF "WT_RENAMED" \in status \/ "INDEX_RENAMED" \in status
    THEN "Renamed"
    ELSE "Skip"

RECURSIVE working_files_skips_failed(_, _)
\* A mutant of working_files: an entry whose statistics cannot be had is
\* left out of the listing.
working_files_skips_failed(entries, stats) ==
    IF entries = <<>> THEN <<>>
    ELSE LET entry == Head(entries)
             rest == working_files_skips_failed(Tail(entries), stats)
             st == stats[entry.path]
         IN  IF entry.status = {} THEN rest
             ELSE IF file_status(entry.status) = "Skip" THEN rest
             ELSE IF ~st.ok THEN rest
             ELSE <<ChangedFile(entry.path, file_status(entry.status),
                                st.value[1], st.value[2], None)>> \o rest

RECURSIVE working_files(_, _)
\* The loop over the status list. entries is a sequence of
\* [path, status]; stats maps a path to Ok(<<insertions, deletions>>), or to
\* an Err when HEAD, the diff or its statistics cannot be had.
working_files(entries, stats) ==
    IF entries = <<>> THEN <<>>
    ELSE LET entry == Head(entries)
             rest == working_files(Tail(entries), stats)
             st == stats[entry.path]
         IN  IF entry.status = {} THEN rest
             ELSE IF file_status(entry.status) = "Skip" THEN rest
             ELSE <<ChangedFile(entry.path, file_status(entry.status),
                                IF st.ok THEN st.value[1] ELSE 0,
                                IF st.ok THEN st.value[2] ELSE 0,
                                None)>> \o rest

get_working_changes(entries, stats) == Ok(working_files(entries, stats))

\* The paths in the order the status list gives them.
PathOrder == <<"a.txt", "b.log">>

\* The status list of the repository: the paths with a status, in order.
Statuses(h, i, w) ==
    LET all == [k \in 1..Len(PathOrder) |->
                  [path |-> PathOrder[k], status |-> StatusOf(PathOrder[k], h, i, w)]]
        listed(e) == e.status # {}
    IN  SelectSeq(all, listed)

\* diff_tree_to_workdir_with_index(HEAD tree) restricted to one path, and its
\* statistics: an untracked file's lines are not counted, and an ignored file
\* has no delta.
WorkingStats(p, h, i, w) ==
    IF h[p] = Absent /\ i[p] = Absent THEN <<0, 0>>
    ELSE IF h[p] = Absent /\ w[p] = Absent THEN <<0, 0>>
    ELSE LineStats(h[p], w[p])

\* A mutant of GetWorkingChanges: the status list is made with the option to
\* update the index, and the files on disk that the index tracks are staged.
GetWorkingChanges_updates_index(statsFail) ==
    LET h == HeadTree(head)
        stats == [p \in Paths |->
                    IF statsFail \/ ~HeadResolves(head) THEN Err("no stats")
                    ELSE Ok(WorkingStats(p, h, index, worktree))]
        r == get_working_changes(Statuses(h, index, worktree), stats)
    IN  /\ result' = [op |-> "get_working_changes", arg |-> "",
                      fault |-> IF statsFail THEN "stats" ELSE "none",
                      ret |-> "Ok", files |-> r.value]
        /\ index' = [p \in Paths |-> IF index[p] # Absent THEN worktree[p] ELSE index[p]]
        /\ UNCHANGED <<head, worktree, input>>

GetWorkingChanges(statsFail) ==
    LET h == HeadTree(head)
        stats == [p \in Paths |->
                    IF statsFail \/ ~HeadResolves(head) THEN Err("no stats")
                    ELSE Ok(WorkingStats(p, h, index, worktree))]
        r == get_working_changes(Statuses(h, index, worktree), stats)
    IN  /\ result' = [op |-> "get_working_changes", arg |-> "",
                      fault |-> IF statsFail THEN "stats" ELSE "none",
                      ret |-> "Ok", files |-> r.value]
        /\ UNCHANGED <<repoVars, input>>

(***************************************************************************)
(* The user, between calls                                                 *)
(***************************************************************************)
NoInput == [kind |-> "none"]

EnvResult == [op |-> "env", arg |-> "", fault |-> "none", ret |-> "Ok"]

\* Write, replace or remove a file on disk.
WriteFile(p, e) ==
    /\ worktree[p] # e
    /\ worktree' = [worktree EXCEPT ![p] = e]
    /\ result' = EnvResult
    /\ UNCHANGED <<head, index, input>>

\* git add -f p (stages the file, or its removal).
GitAdd(p) ==
    /\ index[p] # worktree[p]
    /\ index' = [index EXCEPT ![p] = worktree[p]]
    /\ result' = EnvResult
    /\ UNCHANGED <<head, worktree, input>>

\* git rm --cached p
GitRmCached(p) ==
    /\ index[p] # Absent
    /\ index' = [index EXCEPT ![p] = Absent]
    /\ result' = EnvResult
    /\ UNCHANGED <<head, worktree, input>>

\* git symbolic-ref HEAD refs/heads/n, git update-ref --no-deref HEAD c
SetHead(h) ==
    /\ head # h
    /\ head' = h
    /\ result' = EnvResult
    /\ UNCHANGED <<index, worktree, input>>

(***************************************************************************)
(* Spec: a clean clone, then any interleaving of edits and calls            *)
(***************************************************************************)
Init ==
    /\ head = SymbolicHead("main")
    /\ index = CommitTree["c3"]
    /\ worktree = CommitTree["c3"]
    /\ input = NoInput
    /\ result = EnvResult

Next ==
    \/ \E p \in Paths, e \in Entries : WriteFile(p, e)
    \/ \E p \in Paths : GitAdd(p)
    \/ \E p \in Paths : GitRmCached(p)
    \/ \E h \in Heads : SetHead(h)
    \/ \E n \in CheckoutNames, f \in Faults : checkout_branch(n, f)
    \/ \E statsFail \in BOOLEAN : GetWorkingChanges(statsFail)

Spec == Init /\ [][Next]_vars

(***************************************************************************)
(* Properties of checkout_branch, under Spec                               *)
(***************************************************************************)
\* The step is a call of checkout_branch.
CheckoutStep == result'.op = "checkout_branch"

\* The state is the one a call of checkout_branch has just returned in.
AfterCheckout == result.op = "checkout_branch"

FlagsIn(set) == \E p \in Paths : StatusOf(p, HeadTree(head), index, worktree) \cap set # {}

FlagsWithin(set) == \A p \in Paths : StatusOf(p, HeadTree(head), index, worktree) \subseteq set

\* Some path is modified or deleted, in the index or in the working tree.
ModifiedOrDeleted ==
    FlagsIn({"WT_MODIFIED", "WT_DELETED", "INDEX_MODIFIED", "INDEX_DELETED"})

\* C1: whenever some path is modified or deleted, in the index or in the
\* working tree, checkout_branch fails with the uncommitted-changes error and
\* leaves HEAD, the index and the working tree as they were, whatever the
\* name asked for.
C1_GuardBlocksModifiedOrDeleted ==
    [][(CheckoutStep /\ ModifiedOrDeleted)
        => (result'.ret = ErrUncommitted /\ UNCHANGED repoVars)]_vars

\* C1's case: a checkout of an existing branch was refused over a
\* modification or a deletion.
C1_Witness ==
    /\ AfterCheckout
    /\ result.arg \in DOMAIN LocalBranches
    /\ result.ret = ErrUncommitted
    /\ ModifiedOrDeleted

Committed(e) == \E c \in Commits, q \in Paths : CommitTree[c][q] = e

\* C3: a successful checkout_branch destroys or overwrites no entry of the
\* working tree or of the index that no commit holds.
C3_NoSilentLoss ==
    [][(CheckoutStep /\ result'.ret = "Ok")
        => \A p \in Paths :
              /\ (worktree[p] # Absent /\ worktree'[p] # worktree[p])
                    => Committed(worktree[p])
              /\ (index[p] # Absent /\ index'[p] # index[p])
                    => Committed(index[p])]_vars

\* C4: when checkout_branch(name) returns success, HEAD names the local
\* branch name (it is not detached), get_current_branch returns name, and
\* every path of the branch's tree, and every tracked path, holds on disk
\* what the tree of the branch's tip holds for it.
C4_SwitchedToBranch ==
    (AfterCheckout /\ result.ret = "Ok")
        => /\ result.arg \in DOMAIN LocalBranches
           /\ head = SymbolicHead(result.arg)
           /\ get_current_branch(head, DOMAIN LocalBranches) = Ok(result.arg)
           /\ \A p \in Paths :
                 (CommitTree[LocalBranches[result.arg]][p] # Absent \/ index[p] # Absent)
                    => worktree[p] = CommitTree[LocalBranches[result.arg]][p]

\* C4's case: a checkout of feature succeeded, and the working tree holds
\* feature's files.
C4_Witness ==
    /\ AfterCheckout
    /\ result.ret = "Ok"
    /\ result.arg = "feature"
    /\ worktree = CommitTree[LocalBranches["feature"]]

\* C5 as stated: when no local branch is called name, checkout_branch fails
\* with BranchNotFound and leaves HEAD, the index and the working tree as
\* they were.
C5_NotFoundWhenNoLocalBranch ==
    [][(CheckoutStep /\ result'.arg \notin DOMAIN LocalBranches)
        => (result'.ret = ErrBranchNotFound /\ UNCHANGED repoVars)]_vars

\* C5, amended: when no local branch is called name (a remote-tracking
\* branch of that name or none at all), checkout_branch fails and leaves
\* HEAD, the index and the working tree as they were; the error is
\* BranchNotFound unless the guard blocks, and then it is the
\* uncommitted-changes error.
C5_FailsWhenNoLocalBranch ==
    [][(CheckoutStep /\ result'.arg \notin DOMAIN LocalBranches)
        => /\ UNCHANGED repoVars
           /\ result'.ret =
                IF FlagsIn({"WT_MODIFIED", "WT_DELETED", "INDEX_MODIFIED",
                            "INDEX_DELETED", "INDEX_NEW"})
                THEN ErrUncommitted ELSE ErrBranchNotFound]_vars

\* C5's case: a name that only a remote-tracking branch has was refused as
\* not found.
C5_Witness ==
    /\ AfterCheckout
    /\ result.arg \in DOMAIN RemoteBranches
    /\ result.ret = ErrBranchNotFound

(***************************************************************************)
(* SpecStatus: get_working_changes on a status list of one entry, whose    *)
(* flags and whose statistics are drawn                                    *)
(***************************************************************************)
MaxStat == 1

StatusFlags ==
    {"INDEX_NEW", "INDEX_MODIFIED", "INDEX_DELETED", "INDEX_RENAMED",
     "INDEX_TYPECHANGE", "WT_NEW", "WT_MODIFIED", "WT_DELETED",
     "WT_TYPECHANGE", "WT_RENAMED", "IGNORED", "CONFLICTED"}

StatsOutcomes ==
    {Err("no stats")} \cup {Ok(<<a, d>>) : a \in 0..MaxStat, d \in 0..MaxStat}

StatusInputs == [kind : {"status"}, status : SUBSET StatusFlags, stats : StatsOutcomes]

\* The path of the one entry.
EntryPath == "a.txt"

InitStatus ==
    /\ head = SymbolicHead("main")
    /\ index = CommitTree["c3"]
    /\ worktree = CommitTree["c3"]
    /\ input \in StatusInputs
    /\ result = EnvResult

GetWorkingChangesOfEntry ==
    LET entries == <<[path |-> EntryPath, status |-> input.status]>>
        stats == [p \in {EntryPath} |-> input.stats]
        r == get_working_changes(entries, stats)
    IN  /\ input.kind = "status"
        /\ result' = [op |-> "get_working_changes", arg |-> "", fault |-> "none",
                      ret |-> "Ok", files |-> r.value]
        /\ UNCHANGED <<repoVars, input>>

NextStatus == GetWorkingChangesOfEntry

SpecStatus == InitStatus /\ [][NextStatus]_vars

\* The claim's list of rules for the flags of one path, first match first.
C6_RuleStatus(status) ==
    LET newIndex == "INDEX_NEW" \in status
        newWt == "WT_NEW" \in status
        deleted == "INDEX_DELETED" \in status \/ "WT_DELETED" \in status
        modified == "INDEX_MODIFIED" \in status \/ "WT_MODIFIED" \in status
        renamed == "INDEX_RENAMED" \in status \/ "WT_RENAMED" \in status
    IN  CASE newWt /\ ~newIndex -> "Untracked"
          [] ~(newWt /\ ~newIndex) /\ (newIndex \/ newWt) -> "Added"
          [] ~(newIndex \/ newWt) /\ deleted -> "Deleted"
          [] ~(newIndex \/ newWt) /\ ~deleted /\ modified -> "Modified"
          [] ~(newIndex \/ newWt) /\ ~deleted /\ ~modified /\ renamed -> "Renamed"
          [] OTHER -> "Skip"

\* C6: get_working_changes gives a path with the flags status the status of
\* the first rule that matches, untracked, added, deleted, modified, renamed
\* in this order, and reports it once; a path no rule matches (only ignored,
\* typechange or conflicted) is not reported.
C6_StatusPrecedence ==
    (result.op = "get_working_changes" /\ input.kind = "status")
        => IF input.status = {} \/ C6_RuleStatus(input.status) = "Skip"
           THEN result.files = <<>>
           ELSE /\ Len(result.files) = 1
                /\ result.files[1].path = EntryPath
                /\ result.files[1].status = C6_RuleStatus(input.status)

\* C6's case: a path staged as modified and deleted on disk was reported,
\* as Deleted.
C6_Witness ==
    /\ result.op = "get_working_changes"
    /\ input.kind = "status"
    /\ input.status = {"INDEX_MODIFIED", "WT_DELETED"}
    /\ Len(result.files) = 1
    /\ result.files[1].status = "Deleted"

(***************************************************************************)
(* list_branches                                                           *)
(***************************************************************************)
\* Ordering::Less, Equal, Greater of two integers (bytes, lengths).
int_cmp(a, b) == IF a < b THEN "Less" ELSE IF a > b THEN "Greater" ELSE "Equal"

\* bool::cmp: false < true
bool_cmp(a, b) == IF a = b THEN "Equal" ELSE IF b THEN "Less" ELSE "Greater"

RECURSIVE str_cmp(_, _)
\* String::cmp: byte by byte, a proper prefix first. A string is the
\* sequence of its bytes.
str_cmp(a, b) ==
    IF a = <<>> /\ b = <<>> THEN "Equal"
    ELSE IF a = <<>> THEN "Less"
    ELSE IF b = <<>> THEN "Greater"
    ELSE IF Head(a) # Head(b) THEN int_cmp(Head(a), Head(b))
    ELSE str_cmp(Tail(a), Tail(b))

\* A mutant of branch_cmp: the current branch is not put first.
branch_cmp_no_current(a, b) ==
    IF a.is_remote # b.is_remote THEN bool_cmp(a.is_remote, b.is_remote)
    ELSE str_cmp(a.name, b.name)

\* The closure given to sort_by.
branch_cmp(a, b) ==
    IF a.is_current # b.is_current THEN bool_cmp(b.is_current, a.is_current)
    ELSE IF a.is_remote # b.is_remote THEN bool_cmp(a.is_remote, b.is_remote)
    ELSE str_cmp(a.name, b.name)

RECURSIVE insert_sorted(_, _)
\* x put into the sorted sequence s, after the elements it does not precede.
insert_sorted(x, s) ==
    IF s = <<>> THEN <<x>>
    ELSE IF branch_cmp(x, Head(s)) = "Less" THEN <<x>> \o s
    ELSE <<Head(s)>> \o insert_sorted(x, Tail(s))

RECURSIVE sort_by(_)
\* Vec::sort_by with branch_cmp: a stable sort (elements that compare Equal
\* keep their order).
sort_by(s) ==
    IF s = <<>> THEN <<>>
    ELSE insert_sorted(s[Len(s)], sort_by(SubSeq(s, 1, Len(s) - 1)))

\* A mutant of list_branches: a remote branch called like the current
\* branch is marked current too.
list_branches_remote_current(h, local, remote, peels, tip) ==
    LET names == {local[k] : k \in 1..Len(local)}
        current_branch == get_current_branch(h, names)
        commit_id == IF peels THEN OidString(tip) ELSE <<>>
        locals == [k \in 1..Len(local) |->
                     [name |-> local[k],
                      is_current |-> current_branch.ok /\ current_branch.value = local[k],
                      is_remote |-> FALSE,
                      commit_id |-> commit_id]]
        remotes == [k \in 1..Len(remote) |->
                      [name |-> remote[k],
                       is_current |-> current_branch.ok /\ current_branch.value = remote[k],
                       is_remote |-> TRUE, commit_id |-> commit_id]]
    IN  Ok(sort_by(locals \o remotes))

\* local, remote: the names of the branches of refs/heads and of
\* refs/remotes in the order the backend's iterator gives them; peels: do
\* the references peel to a commit, whose id is tip.
list_branches(h, local, remote, peels, tip) ==
    LET names == {local[k] : k \in 1..Len(local)}
        current_branch == get_current_branch(h, names)
        commit_id == IF peels THEN OidString(tip) ELSE <<>>
        locals == [k \in 1..Len(local) |->
                     [name |-> local[k],
                      is_current |-> current_branch.ok /\ current_branch.value = local[k],
                      is_remote |-> FALSE,
                      commit_id |-> commit_id]]
        remotes == [k \in 1..Len(remote) |->
                      [name |-> remote[k], is_current |-> FALSE,
                       is_remote |-> TRUE, commit_id |-> commit_id]]
    IN  Ok(sort_by(locals \o remotes))

(***************************************************************************)
(* SpecBranches: list_branches on drawn references and a drawn HEAD. A     *)
(* name is the sequence of its bytes; a commit id is its 40 digits.        *)
(***************************************************************************)
MaxLocal == 3

MaxRemote == 2

OidLen == 40

\* The id of the one commit the drawn references point to.
TipOid == [k \in 1..OidLen |-> 1]

\* Branch names: short ones, and one that reads like the commit's id.
NamePool == {<<1>>, <<1, 1>>, <<1, 2>>, <<2>>, TipOid}

\* The sequences of at most n different names.
DistinctSeqs(n) ==
    UNION {{q \in [1..k -> NamePool] : \A x, y \in 1..k : x # y => q[x] # q[y]}
            : k \in 0..n}

BranchInputs ==
    [kind : {"branches"},
     head : {SymbolicHead(n) : n \in NamePool} \cup {DetachedHead(TipOid)},
     local : DistinctSeqs(MaxLocal),
     remote : DistinctSeqs(MaxRemote),
     peels : BOOLEAN]

InitBranches ==
    /\ head = SymbolicHead("main")
    /\ index = CommitTree["c3"]
    /\ worktree = CommitTree["c3"]
    /\ input \in BranchInputs
    /\ result = EnvResult

ListBranches ==
    /\ input.kind = "branches"
    /\ result' = [op |-> "list_branches", arg |-> "", fault |-> "none", ret |-> "Ok",
                  branches |-> list_branches(input.head, input.local, input.remote,
                                             input.peels, TipOid).value]
    /\ UNCHANGED <<repoVars, input>>

GetCurrentBranch ==
    LET r == get_current_branch(input.head, {input.local[k] : k \in 1..Len(input.local)})
    IN  /\ input.kind = "branches"
        /\ result' = [op |-> "get_current_branch", arg |-> "", fault |-> "none",
                      ret |-> IF r.ok THEN "Ok" ELSE r.value,
                      value |-> IF r.ok THEN r.value ELSE <<>>]
        /\ UNCHANGED <<repoVars, input>>

NextBranches == ListBranches \/ GetCurrentBranch

SpecBranches == InitBranches /\ [][NextBranches]_vars

\* The name a is before the name b, or is b, in the order of their bytes.
C7_NameLeq(a, b) ==
    \/ a = b
    \/ \E k \in 1..Len(b) :
          /\ k - 1 <= Len(a)
          /\ \A j \in 1..(k - 1) : a[j] = b[j]
          /\ (k > Len(a) \/ a[k] < b[k])

\* C7: in the sequence list_branches returns, the current branch is first
\* whenever HEAD names a branch that is among the local ones, every local
\* branch is before every remote one, and the names of the local branches
\* that are not current, and those of the remote ones, ascend.
C7_BranchOrder ==
    (result.op = "list_branches" /\ input.kind = "branches")
        => LET b == result.branches
               n == Len(b)
           IN  /\ n = Len(input.local) + Len(input.remote)
               /\ (input.head.kind = "symbolic"
                     /\ \E k \in 1..Len(input.local) : input.local[k] = input.head.target)
                    => (b[1].name = input.head.target /\ b[1].is_current /\ ~b[1].is_remote)
               /\ \A x, y \in 1..n :
                     (x < y /\ b[x].is_remote) => b[y].is_remote
               /\ \A x, y \in 1..n :
                     (x < y /\ b[x].is_remote = b[y].is_remote
                            /\ ~b[x].is_current /\ ~b[y].is_current)
                        => C7_NameLeq(b[x].name, b[y].name)

\* C7's case: three local branches given out of order, the current one
\* last in name, and two remote ones given out of order.
C7_Witness ==
    /\ result.op = "list_branches"
    /\ input.kind = "branches"
    /\ input.head = SymbolicHead(<<2>>)
    /\ input.local = <<(<<1, 2>>), (<<2>>), (<<1>>)>>
    /\ input.remote = <<(<<1, 2>>), (<<1, 1>>)>>
    /\ result.branches[1].name = <<2>>
    /\ result.branches[2].name = <<1>>
    /\ result.branches[5].name = <<1, 2>>

(***************************************************************************)
(* list_commits                                                            *)
(***************************************************************************)
\* A history: commits 1..n, each with its parents in order (older commits)
\* and its commit time; head is the commit HEAD resolves to, 0 when HEAD is
\* unborn.
ErrPushHead == "Failed to push HEAD"

DefaultLimit == 100

\* The commit's message, if it has one, as its lines.
MessageOf(c) == IF c % 2 = 0 THEN <<"subject", "body">> ELSE <<>>

\* The author's name and email, if the signature has them.
AuthorOf(c) == IF c % 2 = 0 THEN Some("Test User") ELSE None

EmailOf(c) == IF c % 2 = 0 THEN Some("test@example.com") ELSE None

\* The time of the author's signature, which is not the commit time the
\* walk sorts by.
AuthorTimeOf(c, t) == IF c % 2 = 0 THEN t ELSE t - 1

unwrap_or(opt, default) == IF opt = None THEN default ELSE opt[1]

RECURSIVE insert_by_date_oldest_first(_, _, _)
\* A mutant of insert_by_date: the list is kept oldest first.
insert_by_date_oldest_first(c, list, time) ==
    IF list = <<>> THEN <<c>>
    ELSE IF time[Head(list)] > time[c] THEN <<c>> \o list
    ELSE <<Head(list)>> \o insert_by_date_oldest_first(c, Tail(list), time)

RECURSIVE insert_by_date(_, _, _)
\* The commit c put into the walk's list, which is kept newest first: after
\* every commit that is not older than c.
insert_by_date(c, list, time) ==
    IF list = <<>> THEN <<c>>
    ELSE IF time[Head(list)] < time[c] THEN <<c>> \o list
    ELSE <<Head(list)>> \o insert_by_date(c, Tail(list), time)

RECURSIVE add_parents(_, _, _, _)
\* The parents ps of a commit that has been walked are put into the list,
\* each one once in the whole walk.
add_parents(ps, list, seen, time) ==
    IF ps = <<>> THEN [list |-> list, seen |-> seen]
    ELSE IF Head(ps) \in seen THEN add_parents(Tail(ps), list, seen, time)
    ELSE add_parents(Tail(ps), insert_by_date(Head(ps), list, time),
                     seen \cup {Head(ps)}, time)

\* repo.revwalk() after push_head(): the list of the walk and the commits
\* it has seen.
push_head(hist) == [list |-> <<hist.head>>, seen |-> {hist.head}]

\* The Commit of the commit c.
commit_of(c, hist) ==
    [id |-> OidString(c),
     message |-> IF MessageOf(c) = <<>> THEN "" ELSE Head(MessageOf(c)),
     author |-> unwrap_or(AuthorOf(c), "Unknown"),
     email |-> unwrap_or(EmailOf(c), ""),
     timestamp |-> AuthorTimeOf(c, hist.time[c])]

\* A mutant of limit_reached: the loop stops one commit late.
limit_reached_late(count, limit) == count > limit

\* The loop's test on the number of commits taken so far.
limit_reached(count, limit) == count >= limit

(***************************************************************************)
(* SpecWalk: list_commits on drawn histories, and on one long chain        *)
(***************************************************************************)
MaxCommits == 3

MaxTime == 3

MaxLimit == 4

\* One commit more than the default limit.
LongChain == DefaultLimit + 1

\* The sequences of at most two different commits among the first n.
ParentChoices(n) ==
    {<<>>} \cup {<<a>> : a \in 1..n}
           \cup {s \in {<<a, b>> : a \in 1..n, b \in 1..n} : s[1] # s[2]}

\* The repository before its first commit: HEAD is unborn.
EmptyHistory ==
    [kind |-> "history", n |-> 0, parents |-> <<>>, time |-> <<>>, head |-> 0]

\* A chain of LongChain commits, HEAD at the last one.
LongHistory ==
    [kind |-> "history", n |-> LongChain,
     parents |-> [c \in 1..LongChain |-> IF c = 1 THEN <<>> ELSE <<c - 1>>],
     time |-> [c \in 1..LongChain |-> c],
     head |-> LongChain]

Limits == {None} \cup {Some(k) : k \in 0..MaxLimit}

InitWalk ==
    /\ head = SymbolicHead("main")
    /\ index = CommitTree["c3"]
    /\ worktree = CommitTree["c3"]
    /\ input \in {EmptyHistory, LongHistory}
    /\ result = EnvResult

\* A commit is made with the parents ps at the time t, and HEAD moves to it.
GitCommit(ps, t) ==
    /\ input.kind = "history"
    /\ input.n < MaxCommits
    /\ result.op = "list_commits" => result.pc = "done"
    /\ ps \in ParentChoices(input.n)
    /\ input' = [input EXCEPT !.n = input.n + 1,
                              !.parents = Append(input.parents, ps),
                              !.time = Append(input.time, t),
                              !.head = input.n + 1]
    /\ result' = EnvResult
    /\ UNCHANGED repoVars

WalkResult(limit, pc, ret, walk, commits) ==
    [op |-> "list_commits", arg |-> limit, fault |-> "none", ret |-> ret,
     pc |-> pc, list |-> walk.list, seen |-> walk.seen, commits |-> commits]

NoWalk == [list |-> <<>>, seen |-> {}]

\* list_commits up to its loop: the walk is created and HEAD pushed.
ListCommits(limit) ==
    /\ input.kind = "history"
    /\ result.op = "list_commits" => result.pc = "done"
    /\ result' = IF input.head = 0
                 THEN WalkResult(limit, "done", ErrPushHead, NoWalk, <<>>)
                 ELSE WalkResult(limit, "loop", "running", push_head(input), <<>>)
    /\ UNCHANGED <<repoVars, input>>

\* One turn of the loop of list_commits: the walk yields its next commit,
\* if it has one, and the commit is taken unless the limit is reached.
ListCommitsLoop ==
    /\ result.op = "list_commits"
    /\ result.pc = "loop"
    /\ LET limit == unwrap_or(result.arg, DefaultLimit)
           count == Len(result.commits)
       IN  result' =
             IF result.list = <<>>
             THEN WalkResult(result.arg, "done", "Ok", NoWalk, result.commits)
             ELSE IF limit_reached(count, limit)
             THEN WalkResult(result.arg, "done", "Ok", NoWalk, result.commits)
             ELSE WalkResult(result.arg, "loop", "running",
                             add_parents(input.parents[Head(result.list)],
                                         Tail(result.list), result.seen, input.time),
                             Append(result.commits, commit_of(Head(result.list), input)))
    /\ UNCHANGED <<repoVars, input>>

NextWalk ==
    \/ \E ps \in ParentChoices(MaxCommits), t \in 1..MaxTime : GitCommit(ps, t)
    \/ \E limit \in Limits : ListCommits(limit)
    \/ ListCommitsLoop

SpecWalk == InitWalk /\ [][NextWalk]_vars

RECURSIVE Ancestors(_, _)
\* The commits reachable from the commits of set.
Ancestors(set, hist) ==
    LET more == set \cup UNION {{hist.parents[c][k] : k \in 1..Len(hist.parents[c])} : c \in set}
    IN  IF more = set THEN set ELSE Ancestors(more, hist)

\* list_commits has returned.
AfterListCommits ==
    /\ input.kind = "history"
    /\ result.op = "list_commits"
    /\ result.pc = "done"

\* The limit of the call: the one given, or 100.
LimitOfCall == IF result.arg = None THEN 100 ELSE result.arg[1]

\* C8: list_commits succeeds whenever HEAD resolves, and then returns
\* min(n, limit) commits, n being the number of commits reachable from HEAD
\* and limit the limit given (0 included) or 100 when none is: never more
\* than limit.
C8_LimitIsHardCap ==
    AfterListCommits
        => IF input.head = 0 THEN result.ret = ErrPushHead
           ELSE LET n == Cardinality(Ancestors({input.head}, input))
                IN  /\ result.ret = "Ok"
                    /\ Len(result.commits) <= LimitOfCall
                    /\ Len(result.commits) = IF n <= LimitOfCall THEN n ELSE LimitOfCall

\* C8's case: the chain of 101 commits, listed with no limit given: 100.
C8_Witness ==
    /\ AfterListCommits
    /\ input.n = LongChain
    /\ result.arg = None
    /\ Len(result.commits) = 100

\* No reachable commit has more than one parent.
LinearHistory ==
    \A c \in Ancestors({input.head}, input) : Len(input.parents[c]) <= 1

\* C9: list_commits returns commits reachable from HEAD, each once, the
\* HEAD commit first; in a linear history every commit returned is followed
\* by its parent; and where every commit was committed later than its
\* parents, no commit is returned after one of its parents.
C9_NewestFirst ==
    (AfterListCommits /\ result.ret = "Ok")
        => LET r == result.commits
               reach == Ancestors({input.head}, input)
           IN  /\ \A k \in 1..Len(r) : r[k].id \in reach
               /\ \A x, y \in 1..Len(r) : x # y => r[x].id # r[y].id
               /\ Len(r) > 0 => r[1].id = input.head
               /\ LinearHistory
                    => \A k \in 1..(Len(r) - 1) : input.parents[r[k].id] = <<r[k + 1].id>>
               /\ (\A c \in reach : \A j \in 1..Len(input.parents[c]) :
                        input.time[input.parents[c][j]] < input.time[c])
                    => \A x, y \in 1..Len(r) :
                         (\E j \in 1..Len(input.parents[r[x].id]) :
                              input.parents[r[x].id][j] = r[y].id) => x < y

\* C9's case: a linear history of three commits listed whole, HEAD's commit
\* first and the root last.
C9_Witness ==
    /\ AfterListCommits
    /\ result.ret = "Ok"
    /\ input.n = 3
    /\ input.head = 3
    /\ LinearHistory
    /\ Len(result.commits) = 3
    /\ result.commits[1].id = 3
    /\ result.commits[3].id = 1

(***************************************************************************)
(* get_commit_files                                                        *)
(***************************************************************************)
ErrInvalidCommitId == "Invalid commit ID"

ErrFindCommit == "Failed to find commit"

\* The commit ids given: the id of the commit, a well-formed id of no
\* object, and a string that is no object id.
CommitId == "1f0e4c2"

CommitIds == {CommitId, "deadbeef", "HEAD"}

\* git2::Oid::from_str: hexadecimal strings parse.
oid_from_str(commit_id) ==
    IF commit_id \in {CommitId, "deadbeef"} THEN Ok(commit_id)
    ELSE Err(ErrInvalidCommitId)

\* repo.find_commit, in a repository holding the commit c.
find_commit(oid, c) ==
    IF oid = CommitId THEN Ok(c) ELSE Err(ErrFindCommit)

\* A mutant of parent_tree: the last parent's tree.
parent_tree_of_last(c) ==
    IF Len(c.parents) > 0 THEN Some(c.parents[Len(c.parents)]) ELSE None

\* The tree of the first parent, if the commit has a parent.
parent_tree(c) ==
    IF Len(c.parents) > 0 THEN Some(c.parents[1]) ELSE None

Delta(status, path, old, new) ==
    [status |-> status, path |-> path, old |-> old, new |-> new]

\* The deltas of one path between two trees, with the default options: a
\* change of the kind of the entry is a deletion and an addition.
path_deltas(p, old, new) ==
    IF old[p] = new[p] THEN <<>>
    ELSE IF old[p] = Absent THEN <<Delta("Added", p, Absent, new[p])>>
    ELSE IF new[p] = Absent THEN <<Delta("Deleted", p, old[p], Absent)>>
    ELSE IF old[p].kind = new[p].kind THEN <<Delta("Modified", p, old[p], new[p])>>
    ELSE <<Delta("Deleted", p, old[p], Absent), Delta("Added", p, Absent, new[p])>>

RECURSIVE tree_deltas(_, _, _)
tree_deltas(paths, old, new) ==
    IF paths = <<>> THEN <<>>
    ELSE path_deltas(Head(paths), old, new) \o tree_deltas(Tail(paths), old, new)

\* repo.diff_tree_to_tree(old, new): no old tree is the empty tree.
diff_tree_to_tree(old, new) ==
    tree_deltas(PathOrder, IF old = None THEN EmptyTree ELSE old[1], new)

\* impl From<Delta> for FileStatus
file_status_from(delta) ==
    CASE delta = "Added" -> "Added"
      [] delta = "Deleted" -> "Deleted"
      [] delta = "Modified" -> "Modified"
      [] delta = "Renamed" -> "Renamed"
      [] delta = "Copied" -> "Copied"
      [] OTHER -> "Unmodified"

\* The ChangedFile of one delta; patch_ok is whether its patch can be made.
commit_file(delta, patch_ok) ==
    ChangedFile(delta.path,
                file_status_from(delta.status),
                IF patch_ok THEN LineStats(delta.old, delta.new)[1] ELSE 0,
                IF patch_ok THEN LineStats(delta.old, delta.new)[2] ELSE 0,
                IF delta.status = "Renamed" THEN Some(delta.path) ELSE None)

\* c is the commit in the repository: its tree and its parents' trees;
\* patch_fails is whether the patches of the deltas cannot be made.
get_commit_files(commit_id, c, patch_fails) ==
    LET oid == oid_from_str(commit_id)
    IN  IF ~oid.ok THEN oid
        ELSE LET commit == find_commit(oid.value, c)
             IN  IF ~commit.ok THEN commit
                 ELSE LET diff == diff_tree_to_tree(parent_tree(commit.value),
                                                    commit.value.tree)
                      IN  Ok([k \in 1..Len(diff) |->
                                commit_file(diff[k], ~patch_fails)])

(***************************************************************************)
(* SpecFiles: get_commit_files on a drawn commit                           *)
(***************************************************************************)
MaxFileData == 2

MaxParents == 2

\* The trees of the commits drawn.
FileTrees ==
    [Paths -> {Absent} \cup {Blob(d) : d \in 1..MaxFileData} \cup {Link(1)}]

\* The trees of the parents of a commit, in order: none, or the first
\* parent's and those of the other parents, which are drawn alike.
ParentTrees ==
    {<<>>} \cup {<<t>> \o [k \in 1..m |-> u] :
                   t \in FileTrees, u \in FileTrees, m \in 0..(MaxParents - 1)}

InitFiles ==
    /\ head = SymbolicHead("main")
    /\ index = CommitTree["c3"]
    /\ worktree = CommitTree["c3"]
    /\ input \in [kind : {"commit"}, tree : FileTrees, parents : ParentTrees]
    /\ result = EnvResult

GetCommitFiles(commit_id, patch_fails) ==
    LET r == get_commit_files(commit_id, input, patch_fails)
    IN  /\ input.kind = "commit"
        /\ result' = [op |-> "get_commit_files", arg |-> commit_id, fault |-> "none",
                      ret |-> IF r.ok THEN "Ok" ELSE r.value,
                      files |-> IF r.ok THEN r.value ELSE <<>>]
        /\ UNCHANGED <<repoVars, input>>

NextFiles ==
    \E commit_id \in CommitIds, patch_fails \in BOOLEAN :
        GetCommitFiles(commit_id, patch_fails)

SpecFiles == InitFiles /\ [][NextFiles]_vars

\* get_commit_files has returned the files of the commit.
AfterGetCommitFiles ==
    /\ input.kind = "commit"
    /\ result.op = "get_commit_files"
    /\ result.ret = "Ok"

\* The statuses reported for the path p, and how many files report it.
ReportedStatuses(p) ==
    {result.files[k].status : k \in {j \in 1..Len(result.files) : result.files[j].path = p}}

TimesReported(p) ==
    Cardinality({j \in 1..Len(result.files) : result.files[j].path = p})

ErrBinaryFile == "Binary file"

ErrNotUtf8 == "File is not valid UTF-8"

ErrNotABlob == "Not a blob"

ErrNotInCommit == "File not found in commit"

ErrNotFound == "File not found"

\* The position of the first byte that is not ASCII, or one more than the
\* length when every byte is: both conversions pass over a run of ASCII
\* bytes at once.
first_non_ascii(bytes) ==
    LET high == {k \in 1..Len(bytes) : bytes[k] >= 128}
    IN  IF high = {} THEN Len(bytes) + 1
        ELSE CHOOSE k \in high : \A j \in high : k <= j

RECURSIVE utf8_valid(_)
\* Whether bytes are UTF-8: bytes below 128 alone, and the two-byte
\* sequences of a lead byte 194..223 and a continuation byte 128..191.
utf8_valid(bytes) ==
    LET n == first_non_ascii(bytes)
    IN  IF n > Len(bytes) THEN TRUE
        ELSE IF bytes[n] \in 194..223 /\ Len(bytes) >= n + 1 /\ bytes[n + 1] \in 128..191
        THEN utf8_valid(SubSeq(bytes, n + 2, Len(bytes)))
        ELSE FALSE

RECURSIVE from_utf8_lossy(_)
\* The characters of the bytes, as code points; a byte that is not part
\* of a UTF-8 sequence becomes the replacement character.
from_utf8_lossy(bytes) ==
    LET n == first_non_ascii(bytes)
        ascii == SubSeq(bytes, 1, n - 1)
    IN  IF n > Len(bytes) THEN bytes
        ELSE IF bytes[n] \in 194..223 /\ Len(bytes) >= n + 1 /\ bytes[n + 1] \in 128..191
        THEN ascii \o <<(bytes[n] - 192) * 64 + (bytes[n + 1] - 128)>>
                   \o from_utf8_lossy(SubSeq(bytes, n + 2, Len(bytes)))
        ELSE ascii \o <<65533>> \o from_utf8_lossy(SubSeq(bytes, n + 1, Len(bytes)))

\* A mutant of from_utf8: bytes that are not UTF-8 are replaced, not
\* refused.
from_utf8_replacing(bytes) == Ok(from_utf8_lossy(bytes))

\* std::str::from_utf8 and String::from_utf8
from_utf8(bytes) ==
    IF utf8_valid(bytes) THEN Ok(from_utf8_lossy(bytes)) ELSE Err(ErrNotUtf8)

\* blob.is_binary(): over the leading bytes, a zero byte, or more control
\* bytes that are not white space than a 128th of the printable ones.
blob_is_binary(bytes) ==
    LET scan == {k \in 1..Len(bytes) : k <= BinaryCheckLen}
        printable == {k \in scan : (bytes[k] > 31 /\ bytes[k] # 127)
                                      \/ bytes[k] \in {8, 27, 12}}
        nonprintable == {k \in scan \ printable : bytes[k] \notin {9, 10, 11, 12, 13, 32}}
    IN  \/ \E k \in scan : bytes[k] = 0
        \/ Cardinality(printable) \div 128 < Cardinality(nonprintable)

\* tree.get_path: the entry of the tree at the path, if it has one.
tree_get_path(tree, path) ==
    IF path \in DOMAIN tree THEN tree[path] ELSE Absent

\* The closure get_content of get_file_contents: None when the tree has no
\* entry at the path, else the text of the blob or an error.
get_content(tree, path) ==
    LET entry == tree_get_path(tree, path)
    IN  IF entry = Absent THEN None
        ELSE IF entry.kind \in {"file", "symlink"}
        THEN IF blob_is_binary(entry.bytes) THEN Some(Err(ErrBinaryFile))
             ELSE Some(from_utf8(entry.bytes))
        ELSE Some(Err(ErrNotABlob))

FileContents(old_content, new_content, is_binary) ==
    [old_content |-> old_content, new_content |-> new_content, is_binary |-> is_binary]

is_binary_result(r) == r # None /\ ~r[1].ok /\ r[1].value = ErrBinaryFile

\* A mutant of get_file_contents: a side that cannot be read is an error
\* before the binary test.
get_file_contents_errors_first(commit_id, c, file_path) ==
    LET oid == oid_from_str(commit_id)
    IN  IF ~oid.ok THEN oid
        ELSE LET commit == find_commit(oid.value, c)
             IN  IF ~commit.ok THEN commit
                 ELSE LET new_result == get_content(commit.value.tree, file_path)
                          pt == parent_tree(commit.value)
                          old_result == IF pt = None THEN None
                                        ELSE get_content(pt[1], file_path)
                      IN  IF new_result = None /\ old_result = None
                          THEN Err(ErrNotInCommit)
                          ELSE IF old_result # None /\ ~old_result[1].ok
                                  /\ ~is_binary_result(old_result)
                          THEN old_result[1]
                          ELSE IF new_result # None /\ ~new_result[1].ok
                                  /\ ~is_binary_result(new_result)
                          THEN new_result[1]
                          ELSE IF is_binary_result(new_result) \/ is_binary_result(old_result)
                          THEN Ok(FileContents(None, None, TRUE))
                          ELSE Ok(FileContents(
                                 IF old_result = None THEN None ELSE Some(old_result[1].value),
                                 IF new_result = None THEN None ELSE Some(new_result[1].value),
                                 FALSE))

\* A mutant of get_file_contents: a side without the file is the empty text.
get_file_contents_empty_text(commit_id, c, file_path) ==
    LET oid == oid_from_str(commit_id)
    IN  IF ~oid.ok THEN oid
        ELSE LET commit == find_commit(oid.value, c)
             IN  IF ~commit.ok THEN commit
                 ELSE LET new_result == get_content(commit.value.tree, file_path)
                          pt == parent_tree(commit.value)
                          old_result == IF pt = None THEN None
                                        ELSE get_content(pt[1], file_path)
                      IN  IF is_binary_result(new_result) \/ is_binary_result(old_result)
                          THEN Ok(FileContents(None, None, TRUE))
                          ELSE IF old_result # None /\ ~old_result[1].ok THEN old_result[1]
                          ELSE IF new_result # None /\ ~new_result[1].ok THEN new_result[1]
                          ELSE Ok(FileContents(
                                 IF old_result = None THEN Some(<<>>) ELSE Some(old_result[1].value),
                                 IF new_result = None THEN Some(<<>>) ELSE Some(new_result[1].value),
                                 FALSE))

\* A mutant of get_file_contents: the test that the file changed in the
\* commit also refuses a file that is the same on both sides.
get_file_contents_rejects_unchanged(commit_id, c, file_path) ==
    LET oid == oid_from_str(commit_id)
    IN  IF ~oid.ok THEN oid
        ELSE LET commit == find_commit(oid.value, c)
             IN  IF ~commit.ok THEN commit
                 ELSE LET new_result == get_content(commit.value.tree, file_path)
                          pt == parent_tree(commit.value)
                          old_result == IF pt = None THEN None
                                        ELSE get_content(pt[1], file_path)
                      IN  IF pt # None /\ new_result = old_result
                          THEN Err(ErrNotInCommit)
                          ELSE IF is_binary_result(new_result) \/ is_binary_result(old_result)
                          THEN Ok(FileContents(None, None, TRUE))
                          ELSE IF new_result = None /\ old_result = None
                          THEN Err(ErrNotInCommit)
                          ELSE IF old_result # None /\ ~old_result[1].ok THEN old_result[1]
                          ELSE IF new_result # None /\ ~new_result[1].ok THEN new_result[1]
                          ELSE Ok(FileContents(
                                 IF old_result = None THEN None ELSE Some(old_result[1].value),
                                 IF new_result = None THEN None ELSE Some(new_result[1].value),
                                 FALSE))

\* c is the commit in the repository: its tree and its parents' trees.
get_file_contents(commit_id, c, file_path) ==
    LET oid == oid_from_str(commit_id)
    IN  IF ~oid.ok THEN oid
        ELSE LET commit == find_commit(oid.value, c)
             IN  IF ~commit.ok THEN commit
                 ELSE LET new_result == get_content(commit.value.tree, file_path)
                          pt == parent_tree(commit.value)
                          old_result == IF pt = None THEN None
                                        ELSE get_content(pt[1], file_path)
                      IN  IF is_binary_result(new_result) \/ is_binary_result(old_result)
                          THEN Ok(FileContents(None, None, TRUE))
                          ELSE IF new_result = None /\ old_result = None
                          THEN Err(ErrNotInCommit)
                          ELSE IF old_result # None /\ ~old_result[1].ok THEN old_result[1]
                          ELSE IF new_result # None /\ ~new_result[1].ok THEN new_result[1]
                          ELSE Ok(FileContents(
                                 IF old_result = None THEN None ELSE Some(old_result[1].value),
                                 IF new_result = None THEN None ELSE Some(new_result[1].value),
                                 FALSE))

\* head_tree is the tree of HEAD, if HEAD resolves; disk maps the paths of
\* the working directory to the files there.
get_working_file_contents(head_tree, disk, file_path) ==
    LET entry == IF head_tree = None THEN Absent ELSE tree_get_path(head_tree[1], file_path)
        on_disk == tree_get_path(disk, file_path)
    IN  IF entry # Absent /\ entry.kind \notin {"file", "symlink"} THEN Err(ErrNotABlob)
        ELSE IF entry # Absent /\ blob_is_binary(entry.bytes)
        THEN Ok(FileContents(None, None, TRUE))
        ELSE IF entry # Absent /\ ~utf8_valid(entry.bytes) THEN Err(ErrNotUtf8)
        ELSE IF on_disk # Absent /\ contains_nul(on_disk.bytes)
        THEN Ok(FileContents(None, None, TRUE))
        ELSE IF on_disk # Absent /\ ~utf8_valid(on_disk.bytes) THEN Err(ErrNotUtf8)
        ELSE IF entry = Absent /\ on_disk = Absent THEN Err(ErrNotFound)
        ELSE Ok(FileContents(
               IF entry = Absent THEN None ELSE Some(from_utf8(entry.bytes).value),
               IF on_disk = Absent THEN None ELSE Some(from_utf8(on_disk.bytes).value),
               FALSE))

(***************************************************************************)
(* get_file_diff and get_working_file_diff                                 *)
(***************************************************************************)
ErrNoChanges == "File has no changes"

\* The lines of context around a change, by default.
ContextLines == 3

\* The text the backend puts after a line that has no line feed:
\* a line feed, "\ No newline at end of file", a line feed.
NoNewlineMarker ==
    <<10, 92, 32, 78, 111, 32, 110, 101, 119, 108, 105, 110, 101, 32, 97, 116, 32,
      101, 110, 100, 32, 111, 102, 32, 102, 105, 108, 101, 10>>

\* diff_opts.pathspec(file_path): a pathspec matches the path it names and,
\* as a pattern, the paths it globs.
pathspec_matches(spec, path) ==
    \/ spec = path
    \/ spec = "*.txt" /\ path \in {"a.txt"}
    \/ spec = "*" /\ path \in {"a.txt", "b.log"}

\* The deltas of a diff that a pathspec keeps.
with_pathspec(deltas, spec) ==
    LET kept(d) == pathspec_matches(spec, d.path)
    IN  SelectSeq(deltas, kept)

Op(origin, line) == [origin |-> origin, line |-> line]

RECURSIVE edit_script(_, _)
\* The lines of a patch from the lines a to the lines b, in order: common
\* lines " ", lines of a alone "-", lines of b alone "+".
edit_script(a, b) ==
    IF a = <<>> /\ b = <<>> THEN <<>>
    ELSE IF a = <<>> THEN <<Op("+", Head(b))>> \o edit_script(a, Tail(b))
    ELSE IF b = <<>> THEN <<Op("-", Head(a))>> \o edit_script(Tail(a), b)
    ELSE IF Head(a) = Head(b) THEN <<Op(" ", Head(a))>> \o edit_script(Tail(a), Tail(b))
    ELSE IF LcsLen(Tail(a), b) >= LcsLen(a, Tail(b))
    THEN <<Op("-", Head(a))>> \o edit_script(Tail(a), b)
    ELSE <<Op("+", Head(b))>> \o edit_script(a, Tail(b))

\* The positions of a script that a hunk shows: the changes and the
\* ContextLines lines before and after each.
in_hunk(script) ==
    {i \in 1..Len(script) :
       \E j \in 1..Len(script) :
          script[j].origin # " " /\ i - j <= ContextLines /\ j - i <= ContextLines}

RECURSIVE hunk_ranges(_, _, _)
\* The hunks of a script as <<first, last>> positions, from position i on.
hunk_ranges(shown, i, n) ==
    IF i > n THEN <<>>
    ELSE IF i \notin shown THEN hunk_ranges(shown, i + 1, n)
    ELSE LET last == CHOOSE j \in i..n :
                        /\ \A k \in i..j : k \in shown
                        /\ (j + 1) \notin shown
         IN  <<(<<i, last>>)>> \o hunk_ranges(shown, last + 1, n)

RECURSIVE with_markers(_)
\* The lines of a hunk as the backend yields them: a line without line
\* feed is followed by the marker, with origin "=" after a common line,
\* ">" after a line of the old side, "<" after a line of the new side.
with_markers(ops) ==
    IF ops = <<>> THEN <<>>
    ELSE LET op == Head(ops)
             marker == CASE op.origin = "+" -> "<"
                         [] op.origin = "-" -> ">"
                         [] OTHER -> "="
         IN  IF op.line[Len(op.line)] = 10
             THEN <<op>> \o with_markers(Tail(ops))
             ELSE <<op, Op(marker, NoNewlineMarker)>> \o with_markers(Tail(ops))

\* match line.origin()
line_type(origin) ==
    CASE origin = "+" -> "Addition"
      [] origin = "-" -> "Deletion"
      [] OTHER -> "Context"

DiffLine(content, type, old_line_no, new_line_no) ==
    [content |-> content, line_type |-> type,
     old_line_no |-> old_line_no, new_line_no |-> new_line_no]

RECURSIVE diff_lines(_, _, _)
\* The DiffLines of the lines of a hunk. The backend gives a line of the
\* new side (and its marker) no old line number and a line of the old side
\* (and its marker) no new one, and counts line numbers by the line feeds
\* of the lines.
diff_lines(ops, old_no, new_no) ==
    IF ops = <<>> THEN <<>>
    ELSE LET op == Head(ops)
             feeds == Cardinality({k \in 1..Len(op.line) : op.line[k] = 10})
             in_old == op.origin \notin {"+", "<"}
             in_new == op.origin \notin {"-", ">"}
         IN  <<DiffLine(from_utf8_lossy(op.line), line_type(op.origin),
                        IF in_old THEN Some(old_no) ELSE None,
                        IF in_new THEN Some(new_no) ELSE None)>>
             \o diff_lines(Tail(ops),
                           IF in_old THEN old_no + feeds ELSE old_no,
                           IF in_new THEN new_no + feeds ELSE new_no)

DiffHunk(old_start, old_lines, new_start, new_lines, lines) ==
    [old_start |-> old_start, old_lines |-> old_lines,
     new_start |-> new_start, new_lines |-> new_lines, lines |-> lines]

\* The hunk of the positions range[1]..range[2] of a script.
hunk_of(script, range) ==
    LET ops == SubSeq(script, range[1], range[2])
        old_before == Cardinality({k \in 1..(range[1] - 1) : script[k].origin # "+"})
        new_before == Cardinality({k \in 1..(range[1] - 1) : script[k].origin # "-"})
        old_lines == Cardinality({k \in 1..Len(ops) : ops[k].origin # "+"})
        new_lines == Cardinality({k \in 1..Len(ops) : ops[k].origin # "-"})
        old_start == IF old_lines > 0 THEN old_before + 1 ELSE old_before
        new_start == IF new_lines > 0 THEN new_before + 1 ELSE new_before
    IN  DiffHunk(old_start, old_lines, new_start, new_lines,
                 diff_lines(with_markers(ops), old_start, new_start))

\* git2::Patch::from_diff and the loop over its hunks: a binary patch and
\* the patch of an untracked file have no hunks.
patch_hunks(delta) ==
    IF delta.status = "Untracked" \/ patch_is_binary(delta.old, delta.new) THEN <<>>
    ELSE LET script == edit_script(TextLines(delta.old), TextLines(delta.new))
             ranges == hunk_ranges(in_hunk(script), 1, Len(script))
         IN  [k \in 1..Len(ranges) |-> hunk_of(script, ranges[k])]

FileDiff(old_path, new_path, hunks, is_binary) ==
    [old_path |-> old_path, new_path |-> new_path, hunks |-> hunks,
     is_binary |-> is_binary]

\* new_file.is_binary() || old_file.is_binary(): the binary flag of a side
\* of the delta. The backend sets the flags when it loads the content of
\* the files for a patch; loaded is whether it has when they are read.
delta_is_binary(delta, loaded) ==
    loaded /\ patch_is_binary(delta.old, delta.new)

\* get_file_diff and get_working_file_diff from the delta on.
file_diff_of(delta, loaded) ==
    LET old_path == IF delta.status \in {"Renamed", "Copied"}
                    THEN Some(delta.path) ELSE None
    IN  IF delta_is_binary(delta, loaded)
        THEN Ok(FileDiff(old_path, delta.path, <<>>, TRUE))
        ELSE Ok(FileDiff(old_path, delta.path, patch_hunks(delta), FALSE))

\* c is the commit in the repository: its tree and its parents' trees.
get_file_diff(commit_id, c, file_path, loaded) ==
    LET oid == oid_from_str(commit_id)
    IN  IF ~oid.ok THEN oid
        ELSE LET commit == find_commit(oid.value, c)
             IN  IF ~commit.ok THEN commit
                 ELSE LET diff == with_pathspec(
                                    diff_tree_to_tree(parent_tree(commit.value),
                                                      commit.value.tree),
                                    file_path)
                      IN  IF diff = <<>> THEN Err(ErrNotInCommit)
                          ELSE file_diff_of(diff[1], loaded)

\* The deltas of one path between the tree of HEAD and the working
\* directory with the index: a file on disk that neither HEAD nor the index
\* has is untracked.
working_path_deltas(p, old, tracked, disk) ==
    IF old[p] = Absent /\ disk[p] # Absent /\ p \notin tracked
    THEN <<Delta("Untracked", p, Absent, disk[p])>>
    ELSE path_deltas(p, old, disk)

RECURSIVE working_deltas(_, _, _, _)
working_deltas(paths, old, tracked, disk) ==
    IF paths = <<>> THEN <<>>
    ELSE working_path_deltas(Head(paths), old, tracked, disk)
           \o working_deltas(Tail(paths), old, tracked, disk)

\* repo.diff_tree_to_workdir_with_index(head_tree) with untracked files.
diff_tree_to_workdir_with_index(head_tree, tracked, disk) ==
    working_deltas(PathOrder, IF head_tree = None THEN EmptyTree ELSE head_tree[1],
                   tracked, disk)

\* head_tree is the tree of HEAD, if HEAD resolves; tracked is the set of
\* paths in the index; disk maps the paths to the files there.
get_working_file_diff(head_tree, tracked, disk, file_path, loaded) ==
    LET diff == with_pathspec(diff_tree_to_workdir_with_index(head_tree, tracked, disk),
                              file_path)
    IN  IF Len(diff) = 0 THEN Err(ErrNoChanges)
        ELSE file_diff_of(diff[1], loaded)

(***************************************************************************)
(* SpecContents: the diff and the contents of one file, in a commit and    *)
(* in the working directory                                                *)
(***************************************************************************)
MaxBytes == 3

MaxOldBytes == 1

\* The bytes of the files drawn: zero, line feed, "a", and the two bytes of
\* "e" with an acute accent in UTF-8, each of which alone is not UTF-8.
Bytes == {0, 10, 97, 195, 169}

ByteSeqs(n) == UNION {[1..k -> Bytes] : k \in 0..n}

\* What a tree or the working directory may have at the path: nothing, a
\* file, or a symbolic link.
EntriesOf(n) ==
    {Absent} \cup {File(b) : b \in ByteSeqs(n)} \cup {Symlink(<<97>>)}

RECURSIVE Repeat(_, _)
Repeat(bytes, n) == IF n = 0 THEN <<>> ELSE bytes \o Repeat(bytes, n - 1)

\* Two files of nine lines that differ in the first and the last line, far
\* enough apart for two hunks; and the second without its last line feed.
LongOld == File(<<97, 97, 10>> \o Repeat(<<97, 10>>, 2 * ContextLines + 1) \o <<97, 97, 10>>)

LongNew == File(<<10>> \o Repeat(<<97, 10>>, 2 * ContextLines + 1) \o <<195, 169, 10>>)

LongNewNoEol == File(<<10>> \o Repeat(<<97, 10>>, 2 * ContextLines + 1) \o <<195, 169>>)

\* A file of one line, with its line feed.
OneLine == File(<<97, 10>>)

\* The pairs of what the old side and the new side have at the path.
EntryPairs ==
    ((EntriesOf(MaxOldBytes) \cup {OneLine}) \X EntriesOf(MaxBytes))
        \cup {<<LongOld, LongNew>>, <<LongOld, LongNewNoEol>>}

FilePath == "a.txt"

\* The paths asked for: the path of the file, a pattern, and no path of
\* the repository.
FilePaths == {FilePath, "*.txt", "missing.txt"}

\* A commit whose tree has new at the path: a root commit, or one whose
\* first parent has old there.
CommitInputs ==
    {[kind |-> "commit", tree |-> MkTree(new, Absent), parents |-> <<>>] :
        new \in EntriesOf(MaxBytes)}
    \cup {[kind |-> "commit", tree |-> MkTree(pair[2], Absent),
           parents |-> <<MkTree(pair[1], Absent)>>] : pair \in EntryPairs}

\* A working directory with pair[2] at the path, which is no symbolic link;
\* HEAD is unborn, or resolves and has pair[1] at the path; the index has
\* the path where HEAD has it, and may have it where HEAD has not.
WorkingInputs ==
    {[kind |-> "working",
      head_tree |-> IF c[2] THEN Some(MkTree(c[1][1], Absent)) ELSE None,
      tracked |-> c[3],
      disk |-> MkTree(c[1][2], Absent)] :
        c \in {x \in EntryPairs \X BOOLEAN \X (SUBSET {FilePath}) :
                 /\ x[1][2].kind # "symlink"
                 /\ ~x[2] => x[1][1] = Absent
                 /\ x[1][1] # Absent => x[3] = {FilePath}}}

InitContents ==
    /\ head = SymbolicHead("main")
    /\ index = CommitTree["c3"]
    /\ worktree = CommitTree["c3"]
    /\ input \in CommitInputs \cup WorkingInputs
    /\ result = EnvResult

ContentsResult(op, file_path, loaded, r) ==
    [op |-> op, arg |-> file_path, fault |-> "none", loaded |-> loaded,
     ret |-> IF r.ok THEN "Ok" ELSE r.value,
     value |-> IF r.ok THEN r.value ELSE None]

GetFileDiff(file_path, loaded) ==
    /\ input.kind = "commit"
    /\ result' = ContentsResult("get_file_diff", file_path, loaded,
                                get_file_diff(CommitId, input, file_path, loaded))
    /\ UNCHANGED <<repoVars, input>>

GetFileContents(file_path) ==
    /\ input.kind = "commit"
    /\ result' = ContentsResult("get_file_contents", file_path, FALSE,
                                get_file_contents(CommitId, input, file_path))
    /\ UNCHANGED <<repoVars, input>>

GetWorkingFileDiff(file_path, loaded) ==
    /\ input.kind = "working"
    /\ result' = ContentsResult("get_working_file_diff", file_path, loaded,
                                get_working_file_diff(input.head_tree, input.tracked,
                                                      input.disk, file_path, loaded))
    /\ UNCHANGED <<repoVars, input>>

GetWorkingFileContents(file_path) ==
    /\ input.kind = "working"
    /\ result' = ContentsResult("get_working_file_contents", file_path, FALSE,
                                get_working_file_contents(input.head_tree, input.disk,
                                                          file_path))
    /\ UNCHANGED <<repoVars, input>>

\* One call on the repository drawn.
NextContents ==
    /\ result = EnvResult
    /\ \/ \E file_path \in FilePaths, loaded \in BOOLEAN : GetFileDiff(file_path, loaded)
       \/ \E file_path \in FilePaths : GetFileContents(file_path)
       \/ \E file_path \in FilePaths, loaded \in BOOLEAN :
             GetWorkingFileDiff(file_path, loaded)
       \/ \E file_path \in FilePaths : GetWorkingFileContents(file_path)
       \/ \E patch_fails \in BOOLEAN : GetCommitFiles(CommitId, patch_fails)

SpecContents == InitContents /\ [][NextContents]_vars

(***************************************************************************)
(* Claims on the contents and the diff of one file                         *)
(***************************************************************************)
\* What the "before" side of the comparison drawn has at FilePath: the
\* first parent's tree (nothing for a root commit), or the tree of HEAD.
OldEntry ==
    IF input.kind = "commit"
    THEN IF input.parents = <<>> THEN Absent ELSE input.parents[1][FilePath]
    ELSE IF input.head_tree = None THEN Absent ELSE input.head_tree[1][FilePath]

\* What the "after" side has at FilePath: the commit's tree, or the disk.
NewEntry ==
    IF input.kind = "commit" THEN input.tree[FilePath] ELSE input.disk[FilePath]

HasNul(e) == e # Absent /\ \E k \in 1..Len(e.bytes) : e.bytes[k] = 0

\* A text file: it has no zero byte and its bytes are UTF-8.
IsText(e) == e # Absent /\ ~HasNul(e) /\ utf8_valid(e.bytes)

TextOf(e) == from_utf8_lossy(e.bytes)

AfterContents == result.op \in {"get_file_contents", "get_working_file_contents"}

NotFoundOf(op) == IF op = "get_file_contents" THEN ErrNotInCommit ELSE ErrNotFound

\* C11: get_file_contents and get_working_file_contents fail with the
\* not-found error when the path is absent on both sides (a path of no
\* tree, and a path missing from a root commit, included); with a text file
\* on exactly one side they succeed, the absent side's content is None (not
\* the empty text), the other side's is the text, and is_binary is false.
C11_AbsentSideIsNone ==
    AfterContents =>
        /\ (result.arg # FilePath \/ (OldEntry = Absent /\ NewEntry = Absent))
              => result.ret = NotFoundOf(result.op)
        /\ (result.arg = FilePath /\ OldEntry = Absent /\ IsText(NewEntry))
              => /\ result.ret = "Ok"
                 /\ result.value = FileContents(None, Some(TextOf(NewEntry)), FALSE)
        /\ (result.arg = FilePath /\ IsText(OldEntry) /\ NewEntry = Absent)
              => /\ result.ret = "Ok"
                 /\ result.value = FileContents(Some(TextOf(OldEntry)), None, FALSE)

\* A root commit that adds an empty file: the old content is None and the
\* new content is the empty text.
C11_Witness ==
    /\ result.op = "get_file_contents"
    /\ result.arg = FilePath
    /\ input.parents = <<>>
    /\ NewEntry = File(<<>>)
    /\ result.ret = "Ok"
    /\ result.value.old_content = None
    /\ result.value.new_content = Some(<<>>)
    /\ ~result.value.is_binary

FlaggedBinary(e) == e # Absent /\ blob_is_binary(e.bytes)

\* C12: get_file_contents succeeds with is_binary = true and both contents
\* None as soon as the blob of either side is flagged binary, whatever the
\* other side is (absent, text, or bytes that are not UTF-8); and every
\* FileContents with is_binary = true, of a commit or of the working
\* directory, has both contents None.
C12_BinaryShortCircuits ==
    /\ (result.op = "get_file_contents" /\ result.arg = FilePath
           /\ (FlaggedBinary(OldEntry) \/ FlaggedBinary(NewEntry)))
          => /\ result.ret = "Ok"
             /\ result.value = FileContents(None, None, TRUE)
    /\ (AfterContents /\ result.ret = "Ok" /\ result.value.is_binary)
          => /\ result.value.old_content = None
             /\ result.value.new_content = None

\* The parent has a file with a zero byte, the commit has bytes that are
\* not UTF-8: the result is the binary one, not the decoding error.
C12_Witness ==
    /\ result.op = "get_file_contents"
    /\ result.arg = FilePath
    /\ OldEntry = File(<<0>>)
    /\ NewEntry = File(<<195>>)
    /\ result.ret = "Ok"
    /\ result.value.is_binary

\* C13: get_working_file_contents succeeds with is_binary = true and both
\* contents None whenever the file on disk has a zero byte within its first
\* BinaryCheckLen bytes, whatever HEAD has at the path: nothing, a text
\* file, or a blob that is not flagged binary and is not UTF-8.
C13_DiskZeroByteIsBinary ==
    (result.op = "get_working_file_contents" /\ result.arg = FilePath
        /\ NewEntry # Absent /\ contains_nul(NewEntry.bytes))
       => /\ result.ret = "Ok"
          /\ result.value = FileContents(None, None, TRUE)

AfterDiff == result.op \in {"get_file_diff", "get_working_file_diff"}

\* C14: get_file_diff and get_working_file_diff return is_binary = true
\* with no hunks whenever the old or the new side of the file's delta is
\* binary; and no FileDiff has is_binary = true together with hunks.
C14_BinaryDiffHasNoHunks ==
    (AfterDiff /\ result.ret = "Ok")
       => /\ (HasNul(OldEntry) \/ HasNul(NewEntry))
                => (result.value.is_binary /\ result.value.hunks = <<>>)
          /\ result.value.is_binary => result.value.hunks = <<>>

\* The DiffLines of a FileDiff, hunk after hunk.
LinesOf(diff) ==
    UNION {{diff.hunks[h].lines[l] : l \in 1..Len(diff.hunks[h].lines)} :
              h \in 1..Len(diff.hunks)}

\* C15: every DiffLine is classified by its marker: an Addition ('+') has
\* no old line number and has a new one, a Deletion ('-') has no new line
\* number and has an old one, and a line of any other marker, the markers
\* of a missing end-of-file newline included, is a Context line with both
\* line numbers.
C15_LineNumbersByType ==
    (AfterDiff /\ result.ret = "Ok")
       => \A line \in LinesOf(result.value) :
             CASE line.line_type = "Addition"
                    -> line.old_line_no = None /\ line.new_line_no # None
               [] line.line_type = "Deletion"
                    -> line.new_line_no = None /\ line.old_line_no # None
               [] OTHER
                    -> /\ line.line_type = "Context"
                       /\ line.old_line_no # None
                       /\ line.new_line_no # None

NoDeltaOf(op) == IF op = "get_file_diff" THEN ErrNotInCommit ELSE ErrNoChanges

\* C16: get_file_diff and get_working_file_diff fail, with the error of a
\* path that is not in the comparison, exactly when the requested path has
\* no delta: they succeed when the path names a file that differs between
\* the two sides, and a path that exists on neither side, or whose file is
\* the same on both, never yields a FileDiff.
C16_FailsExactlyWithoutDelta ==
    AfterDiff =>
        IF result.arg = FilePath /\ OldEntry # NewEntry
        THEN result.ret = "Ok"
        ELSE result.ret = NoDeltaOf(result.op)

RECURSIVE ConcatLines(_)
\* The contents of the Addition and Context lines, one after the other.
ConcatLines(lines) ==
    IF lines = <<>> THEN <<>>
    ELSE (IF Head(lines).line_type \in {"Addition", "Context"}
          THEN Head(lines).content ELSE <<>>) \o ConcatLines(Tail(lines))

RECURSIVE ConcatHunks(_)
ConcatHunks(hunks) ==
    IF hunks = <<>> THEN <<>>
    ELSE ConcatLines(Head(hunks).lines) \o ConcatHunks(Tail(hunks))

\* The text of a content of FileContents, the empty text when it is None.
TextOrEmpty(content) == IF content = None THEN <<>> ELSE content[1]

\* C17: for every file diff of a commit that is not binary and has a hunk,
\* the contents of the Addition and Context lines of its hunks, in order
\* and across hunks, are the new_content that get_file_contents returns
\* for the same commit and path, files without a newline at their end
\* included.
C17_RoundTrip ==
    (result.op = "get_file_diff" /\ result.arg = FilePath /\ result.ret = "Ok"
        /\ ~result.value.is_binary /\ result.value.hunks # <<>>)
       => LET contents == get_file_contents(CommitId, input, FilePath)
          IN  (contents.ok /\ ~contents.value.is_binary)
                 => TextOrEmpty(contents.value.new_content)
                       = ConcatHunks(result.value.hunks)

\* How many lines of the type the hunks of a FileDiff have.
CountLines(diff, type) ==
    Cardinality(UNION {{<<h, l>> : l \in {k \in 1..Len(diff.hunks[h].lines) :
                                            diff.hunks[h].lines[k].line_type = type}} :
                          h \in 1..Len(diff.hunks)})

\* C18: for every ChangedFile that get_commit_files returns, additions and
\* deletions are the numbers of Addition and Deletion lines in the hunks
\* that get_file_diff returns for the same commit and the file's path, or
\* both are 0 (the patch of the file could not be made).
C18_StatsMatchDiff ==
    AfterGetCommitFiles =>
        \A k \in 1..Len(result.files) :
            LET file == result.files[k]
            IN  \/ file.additions = 0 /\ file.deletions = 0
                \/ \A loaded \in BOOLEAN :
                      LET diff == get_file_diff(CommitId, input, file.path, loaded)
                      IN  /\ diff.ok
                          /\ file.additions = CountLines(diff.value, "Addition")
                          /\ file.deletions = CountLines(diff.value, "Deletion")

(***************************************************************************)
(* Claim on get_current_branch                                             *)
(***************************************************************************)
LocalNames == {input.local[k] : k \in 1..Len(input.local)}

\* C19: get_current_branch returns the short name of the branch when HEAD
\* is on a branch, and the 40 hexadecimal digits of the commit's id when
\* HEAD is detached: never the name of a branch then, whatever branches
\* point to the commit, and never the id while HEAD is on a branch (unless
\* the branch is so named).
C19_NameOrFullOid ==
    (input.kind = "branches" /\ result.op = "get_current_branch")
       => /\ (input.head.kind = "symbolic" /\ input.head.target \in LocalNames)
                => /\ result.ret = "Ok"
                   /\ result.value = input.head.target
                   /\ result.value = TipOid => input.head.target = TipOid
          /\ input.head.kind = "detached"
                => /\ result.ret = "Ok"
                   /\ result.value = OidString(input.head.target)
                   /\ Len(result.value) = OidLen
                   /\ \A k \in 1..OidLen : result.value[k] \in 0..15
                   /\ \A n \in LocalNames : n # TipOid => result.value # n

\* HEAD is detached at the commit that a branch points to.
C19_Witness ==
    /\ input.kind = "branches"
    /\ result.op = "get_current_branch"
    /\ input.head.kind = "detached"
    /\ <<1>> \in LocalNames
    /\ result.ret = "Ok"
    /\ result.value = TipOid

(***************************************************************************)
(* get_commit_range_files, as the design describes it: one comparison for  *)
(* the whole range                                                         *)
(***************************************************************************)
\* history is a line of commits, oldest first: commit k has the tree
\* history[k] and, but for the first, the one parent k - 1.
commit_at(history, k) ==
    [kind |-> "commit", tree |-> history[k],
     parents |-> IF k = 1 THEN <<>> ELSE <<history[k - 1]>>]

\* The oldest commit of the range is the ancestor of the others, the
\* newest their descendant, in whatever order the ids are given.
oldest_of(commit_ids) ==
    CHOOSE c \in {commit_ids[k] : k \in 1..Len(commit_ids)} :
        \A k \in 1..Len(commit_ids) : c <= commit_ids[k]

newest_of(commit_ids) ==
    CHOOSE c \in {commit_ids[k] : k \in 1..Len(commit_ids)} :
        \A k \in 1..Len(commit_ids) : c >= commit_ids[k]

RECURSIVE commit_deltas(_, _, _)
\* The deltas of the commits lo..hi, each compared with its first parent.
commit_deltas(history, lo, hi) ==
    IF lo > hi THEN <<>>
    ELSE diff_tree_to_tree(parent_tree(commit_at(history, lo)), history[lo])
           \o commit_deltas(history, lo + 1, hi)

\* A mutant of get_commit_range_files: one diff per commit of the range.
get_commit_range_files_per_commit(commit_ids, history, patch_fails) ==
    LET diff == commit_deltas(history, oldest_of(commit_ids), newest_of(commit_ids))
    IN  Ok([k \in 1..Len(diff) |-> commit_file(diff[k], ~patch_fails)])

\* The files changed between the first parent of the oldest commit of the
\* range (the empty tree if it has none) and the newest commit.
get_commit_range_files(commit_ids, history, patch_fails) ==
    LET oldest == commit_at(history, oldest_of(commit_ids))
        newest == commit_at(history, newest_of(commit_ids))
        diff == diff_tree_to_tree(parent_tree(oldest), newest.tree)
    IN  Ok([k \in 1..Len(diff) |-> commit_file(diff[k], ~patch_fails)])

(***************************************************************************)
(* SpecRange: get_commit_range_files on a range of a drawn history         *)
(***************************************************************************)
MaxRange == 3

RangeTrees == [Paths -> {Absent, Blob(1), Blob(2)}]

\* The histories drawn, and the ranges of each: the commits lo..n of a
\* history of n commits, given oldest first or newest first.
RangeHistories == UNION {[1..n -> RangeTrees] : n \in 1..MaxRange}

RangesOf(n) ==
    UNION {{[k \in 1..(n - lo + 1) |-> lo + k - 1], [k \in 1..(n - lo + 1) |-> n - k + 1]} :
             lo \in 1..n}

InitRange ==
    /\ head = SymbolicHead("main")
    /\ index = CommitTree["c3"]
    /\ worktree = CommitTree["c3"]
    /\ input \in [kind : {"range"}, history : RangeHistories]
    /\ result = EnvResult

GetCommitRangeFiles(commit_ids, patch_fails) ==
    LET r == get_commit_range_files(commit_ids, input.history, patch_fails)
    IN  /\ input.kind = "range"
        /\ result' = [op |-> "get_commit_range_files", arg |-> commit_ids,
                      fault |-> "none",
                      ret |-> IF r.ok THEN "Ok" ELSE r.value,
                      files |-> IF r.ok THEN r.value ELSE <<>>]
        /\ UNCHANGED <<repoVars, input>>

\* One call on the history drawn.
NextRange ==
    /\ result = EnvResult
    /\ \E commit_ids \in RangesOf(Len(input.history)), patch_fails \in BOOLEAN :
          GetCommitRangeFiles(commit_ids, patch_fails)

SpecRange == InitRange /\ [][NextRange]_vars

AfterGetCommitRangeFiles ==
    /\ input.kind = "range"
    /\ result.op = "get_commit_range_files"

\* The positions in the history of the first and the last commit of the
\* range asked for.
RangeLo == oldest_of(result.arg)

RangeHi == newest_of(result.arg)

RangeBefore == IF RangeLo = 1 THEN EmptyTree ELSE input.history[RangeLo - 1]

RangeAfter == input.history[RangeHi]

\* C20: get_commit_range_files reports one comparison for the whole range,
\* not one per commit: of the tree of the first parent of the oldest commit
\* of the range (the empty tree if that commit has no parent) with the tree
\* of the newest commit. A path is reported once when the two trees differ
\* there, as Added, Deleted or Modified, and not at all when they do not:
\* so a file that is added and then removed within the range is not
\* reported.
C20_OneAggregateDiff ==
    AfterGetCommitRangeFiles =>
        /\ result.ret = "Ok"
        /\ \A p \in Paths :
              /\ ReportedStatuses(p) =
                    IF RangeBefore[p] = RangeAfter[p] THEN {}
                    ELSE IF RangeBefore[p] = Absent THEN {"Added"}
                    ELSE IF RangeAfter[p] = Absent THEN {"Deleted"}
                    ELSE {"Modified"}
              /\ TimesReported(p) = Cardinality(ReportedStatuses(p))
              /\ (RangeBefore[p] = Absent /\ RangeAfter[p] = Absent)
                    => TimesReported(p) = 0

\* A range of two commits or more in which a.txt is added and then
\* removed, while b.log is changed: only b.log is reported.
C20_Witness ==
    /\ AfterGetCommitRangeFiles
    /\ result.ret = "Ok"
    /\ RangeLo < RangeHi
    /\ RangeBefore[FilePath] = Absent
    /\ \E k \in RangeLo..(RangeHi - 1) : input.history[k][FilePath] # Absent
    /\ RangeAfter[FilePath] = Absent
    /\ TimesReported(FilePath) = 0
    /\ Len(result.files) = 1

(***************************************************************************)
(* Claims on the working state and on checkout_branch, under Spec          *)
(***************************************************************************)
AfterGetWorkingChanges == result.op = "get_working_changes"

\* The files of the listing that have the path p.
ListedAt(p) == {k \in 1..Len(result.files) : result.files[k].path = p}

\* C21: get_working_changes never fails over the line counts: when HEAD
\* does not resolve (no commit yet) or the diff or its statistics cannot
\* be had, the call still succeeds and lists every path whose flags give
\* a status, once and with that status, with additions = deletions = 0.
C21_StatsNeverAbort ==
    (AfterGetWorkingChanges /\ (result.fault = "stats" \/ ~HeadResolves(head)))
       => /\ result.ret = "Ok"
          /\ \A p \in Paths :
                LET st == file_status(StatusOf(p, HeadTree(head), index, worktree))
                IN  IF st = "Skip" THEN ListedAt(p) = {}
                    ELSE /\ Cardinality(ListedAt(p)) = 1
                         /\ \A k \in ListedAt(p) :
                               /\ result.files[k].status = st
                               /\ result.files[k].additions = 0
                               /\ result.files[k].deletions = 0

\* HEAD names a branch without commits and a file is staged: the file is
\* listed as Added, with no line counts.
C21_Witness ==
    /\ AfterGetWorkingChanges
    /\ ~HeadResolves(head)
    /\ result.ret = "Ok"
    /\ \E k \in 1..Len(result.files) :
          /\ result.files[k].status = "Added"
          /\ result.files[k].additions = 0
          /\ result.files[k].deletions = 0

(***************************************************************************)
(* Further claims on the contents and the diff of one file, under          *)
(* SpecContents                                                            *)
(***************************************************************************)
\* The side is binary: a blob the backend flags, or a file on disk with a
\* zero byte among the bytes looked at.
OldIsBinary == FlaggedBinary(OldEntry)

NewIsBinary ==
    IF input.kind = "commit" THEN FlaggedBinary(NewEntry)
    ELSE NewEntry # Absent /\ contains_nul(NewEntry.bytes)

NotUtf8(e) == e # Absent /\ ~utf8_valid(e.bytes)

\* C22: when neither side is binary, get_file_contents and
\* get_working_file_contents fail with the not-UTF-8 error as soon as the
\* blob or the file of either side is not valid UTF-8: such content is not
\* reported as binary, nor as absent.
C22_NotUtf8IsAnError ==
    (AfterContents /\ result.arg = FilePath /\ ~OldIsBinary /\ ~NewIsBinary
        /\ (NotUtf8(OldEntry) \/ NotUtf8(NewEntry)))
       => result.ret = ErrNotUtf8

\* HEAD has a text file, the file on disk is a lone lead byte of UTF-8.
C22_Witness ==
    /\ result.op = "get_working_file_contents"
    /\ result.arg = FilePath
    /\ OldEntry = File(<<97>>)
    /\ NewEntry = File(<<195>>)
    /\ result.ret = ErrNotUtf8

(***************************************************************************)
(* Claim on the current branch in list_branches, under SpecBranches        *)
(***************************************************************************)
AfterListBranches == input.kind = "branches" /\ result.op = "list_branches"

\* What get_current_branch resolves to on the repository drawn, if it
\* resolves: the branch HEAD is on, or the id of the commit HEAD is at.
CurrentName ==
    IF input.head.kind = "detached" THEN Some(TipOid)
    ELSE IF input.head.target \in LocalNames THEN Some(input.head.target)
    ELSE None

CurrentBranches == {k \in 1..Len(result.branches) : result.branches[k].is_current}

\* C23: in every result of list_branches no remote branch is current, a
\* local branch is current exactly when its name is what get_current_branch
\* resolves to, and so at most one branch is current: none when HEAD is
\* unborn, or detached and no local branch is named like the id.
C23_OneCurrentLocalBranch ==
    AfterListBranches =>
        /\ \A k \in 1..Len(result.branches) :
              LET b == result.branches[k]
              IN  IF b.is_remote THEN ~b.is_current
                  ELSE b.is_current <=> CurrentName = Some(b.name)
        /\ Cardinality(CurrentBranches) <= 1
        /\ (CurrentName = None \/ (input.head.kind = "detached" /\ TipOid \notin LocalNames))
              => CurrentBranches = {}

\* HEAD is on a branch, and a remote branch has the branch's name: the
\* local one alone is current.
C23_Witness ==
    /\ AfterListBranches
    /\ input.head = SymbolicHead(<<1>>)
    /\ input.local = <<(<<2>>), (<<1>>)>>
    /\ input.remote = <<(<<1>>)>>
    /\ Cardinality(CurrentBranches) = 1

(***************************************************************************)
(* Further claims on checkout_branch, under Spec                           *)
(***************************************************************************)
BlockingFlags ==
    {"WT_MODIFIED", "WT_DELETED", "INDEX_MODIFIED", "INDEX_DELETED", "INDEX_NEW"}

\* C24: checkout_branch tests the guard before it looks for the branch: with
\* a blocking change and no local branch of the name, the call fails with
\* the uncommitted-changes error, not with BranchNotFound; and no call
\* changes HEAD, the index or the working tree unless the guard has passed
\* and the branch has been found.
C24_GuardBeforeBranch ==
    [][CheckoutStep
        => /\ (FlagsIn(BlockingFlags) /\ result'.arg \notin DOMAIN LocalBranches)
                 => result'.ret = ErrUncommitted
           /\ ~(UNCHANGED repoVars)
                 => (~FlagsIn(BlockingFlags) /\ result'.arg \in DOMAIN LocalBranches)]_vars

\* A checkout of a name that no reference has was refused over uncommitted
\* changes.
C24_Witness ==
    /\ AfterCheckout
    /\ result.arg = "nonexistent"
    /\ result.ret = ErrUncommitted

\* C25: checkout_branch points HEAD at the branch before it writes the
\* working tree, and undoes nothing: when the checkout of the tree fails
\* after set_head succeeded, the call returns the error of the checkout,
\* HEAD names the new branch, and each file on disk is either what it was
\* or what the checkout writes there.
C25_NoRollback ==
    [][(CheckoutStep /\ result'.fault = "checkout_tree")
        => /\ result'.ret = ErrCheckout
           /\ result'.arg \in DOMAIN LocalBranches
           /\ head' = SymbolicHead(result'.arg)
           /\ \A p \in Paths :
                 worktree'[p] \in
                    {worktree[p],
                     force_checkout_worktree(CommitTree[LocalBranches[result'.arg]],
                                             index, worktree)[p]}]_vars

\* The checkout of feature failed at the tree: HEAD is on feature and the
\* working tree still holds the files of main.
C25_Witness ==
    /\ AfterCheckout
    /\ result.arg = "feature"
    /\ result.ret = ErrCheckout
    /\ head = SymbolicHead("feature")
    /\ worktree = CommitTree[LocalBranches["main"]]
    /\ worktree # CommitTree[LocalBranches["feature"]]

(***************************************************************************)
(* Claim on the guard of checkout_branch and the listing of                *)
(* get_working_changes, under SpecStatus                                   *)
(***************************************************************************)
\* C28: the guard of checkout_branch is never broader than the listing of
\* get_working_changes: an entry whose flags make the guard block is listed,
\* so an empty listing means the guard lets the checkout go on. The converse
\* does not hold: some flags are listed and do not block.
C28_GuardWithinListing ==
    /\ AfterGetWorkingChanges
          => /\ blocking_status(input.status) => ListedAt(EntryPath) # {}
             /\ result.files = <<>> => ~blocking_status(input.status)
    /\ \E status \in SUBSET StatusFlags :
          /\ file_status(status) # "Skip"
          /\ ~blocking_status(status)

\* A staged deletion alone blocks the checkout and is listed.
C28_Witness ==
    /\ AfterGetWorkingChanges
    /\ input.status = {"INDEX_DELETED"}
    /\ blocking_status(input.status)
    /\ Len(result.files) = 1
    /\ result.files[1].status = "Deleted"

(***************************************************************************)
(* Claim on a file that a commit leaves as it was, under SpecContents      *)
(***************************************************************************)
\* The commit drawn has a first parent, and the path has the same entry in
\* the commit's tree and in the parent's.
UnchangedInCommit ==
    /\ input.kind = "commit"
    /\ input.parents # <<>>
    /\ NewEntry # Absent
    /\ OldEntry = NewEntry

\* The call was get_file_contents or get_file_diff on the path of the file.
OnUnchangedFile ==
    /\ result.op \in {"get_file_contents", "get_file_diff"}
    /\ result.arg = FilePath
    /\ UnchangedInCommit

ErrNotARepo == "Not a valid git repository"

ErrBareRepo == "Repository has no working directory (bare repo)"

\* The paths given to validate_repo: the repository, a bare repository and
\* a directory that is no repository.
RepoPath == "/work/recap"

BarePath == "/work/bare.git"

ValidatePaths == {RepoPath, BarePath, "/work/none"}

RepoInfo(path, name, branch) == [path |-> path, name |-> name, branch |-> branch]

\* repo.workdir() of the repository, and the last component of that path.
workdir(path) == IF path = RepoPath THEN Some("/work/recap/") ELSE None

file_name(path) == IF path = "/work/recap/" THEN Some("recap") ELSE None

\* h and locals are HEAD and the local branch names of the repository.
validate_repo(path, h, locals) ==
    IF path \notin {RepoPath, BarePath} THEN Err(ErrNotARepo)
    ELSE IF workdir(path) = None THEN Err(ErrBareRepo)
    ELSE LET repo_path == workdir(path)[1]
             name == unwrap_or(file_name(repo_path), "unknown")
             branch == get_current_branch(h, locals)
         IN  IF ~branch.ok THEN branch
             ELSE Ok(RepoInfo(repo_path, name, branch.value))

(***************************************************************************)
(* list_commits as one call                                                *)
(***************************************************************************)
RECURSIVE walk_commits(_, _, _, _)
\* The loop of list_commits, from the walk and the commits taken so far.
walk_commits(walk, commits, limit, hist) ==
    IF walk.list = <<>> THEN commits
    ELSE IF limit_reached(Len(commits), limit) THEN commits
    ELSE walk_commits(add_parents(hist.parents[Head(walk.list)], Tail(walk.list),
                                  walk.seen, hist.time),
                      Append(commits, commit_of(Head(walk.list), hist)),
                      limit, hist)

list_commits(hist, limit) ==
    IF hist.head = 0 THEN Err(ErrPushHead)
    ELSE Ok(walk_commits(push_head(hist), <<>>, unwrap_or(limit, DefaultLimit), hist))

(***************************************************************************)
(* SpecReads: the operations that only read, called one after the other   *)
(* on one repository                                                       *)
(***************************************************************************)
\* A history of three commits: two roots and their merge, where HEAD is.
MergeHistory ==
    [kind |-> "history", n |-> 3, parents |-> <<<<>>, <<>>, <<1, 2>>>>,
     time |-> <<2, 1, 2>>, head |-> 3]

\* At most one local and one remote branch.
FewBranches ==
    [kind : {"branches"},
     head : {SymbolicHead(n) : n \in NamePool} \cup {DetachedHead(TipOid)},
     local : DistinctSeqs(1),
     remote : DistinctSeqs(1),
     peels : BOOLEAN]

\* Commits and working directories whose files have at most one byte.
SmallFiles ==
    {[kind |-> "commit", tree |-> MkTree(new, Absent), parents |-> <<>>] :
        new \in EntriesOf(1)}
    \cup {[kind |-> "commit", tree |-> MkTree(new, Absent),
           parents |-> <<MkTree(old, Absent)>>] :
            old \in EntriesOf(1), new \in EntriesOf(1)}
    \cup {[kind |-> "working", head_tree |-> Some(MkTree(old, Absent)),
           tracked |-> {FilePath}, disk |-> MkTree(new, Absent)] :
            old \in EntriesOf(1) \ {Absent}, new \in EntriesOf(1) \ {Symlink(<<97>>)}}
    \cup {[kind |-> "working", head_tree |-> None,
           tracked |-> {}, disk |-> MkTree(new, Absent)] :
            new \in EntriesOf(1) \ {Symlink(<<97>>)}}

\* The repository is HEAD, the index and the working tree, or the one drawn
\* as the input.
InitReads ==
    \/ /\ head \in Heads
       /\ index \in {CommitTree[c] : c \in Commits}
       /\ worktree \in [Paths -> Entries]
       /\ input = NoInput
       /\ result = EnvResult
    \/ /\ head = SymbolicHead("main")
       /\ index = CommitTree["c3"]
       /\ worktree = CommitTree["c3"]
       /\ input \in {EmptyHistory, MergeHistory} \cup FewBranches \cup SmallFiles
       /\ result = EnvResult

ListCommitsCall(limit) ==
    LET r == list_commits(input, limit)
    IN  /\ input.kind = "history"
        /\ result' = [op |-> "list_commits", arg |-> limit, fault |-> "none",
                      ret |-> IF r.ok THEN "Ok" ELSE r.value,
                      commits |-> IF r.ok THEN r.value ELSE <<>>]
        /\ UNCHANGED <<repoVars, input>>

ValidateRepo(path) ==
    LET r == validate_repo(path, input.head,
                           {input.local[k] : k \in 1..Len(input.local)})
    IN  /\ input.kind = "branches"
        /\ result' = [op |-> "validate_repo", arg |-> path, fault |-> "none",
                      ret |-> IF r.ok THEN "Ok" ELSE r.value,
                      value |-> IF r.ok THEN r.value ELSE <<>>]
        /\ UNCHANGED <<repoVars, input>>

NextReads ==
    \/ \E limit \in Limits : ListCommitsCall(limit)
    \/ \E commit_id \in CommitIds : GetCommitFiles(commit_id, FALSE)
    \/ \E file_path \in FilePaths, loaded \in BOOLEAN : GetFileDiff(file_path, loaded)
    \/ \E file_path \in FilePaths : GetFileContents(file_path)
    \/ GetCurrentBranch
    \/ ListBranches
    \/ \E path \in ValidatePaths : ValidateRepo(path)
    \/ /\ input = NoInput
       /\ \E statsFail \in BOOLEAN : GetWorkingChanges(statsFail)
    \/ \E file_path \in FilePaths, loaded \in BOOLEAN :
          GetWorkingFileDiff(file_path, loaded)
    \/ \E file_path \in FilePaths : GetWorkingFileContents(file_path)

SpecReads == InitReads /\ [][NextReads]_vars

ReadOps ==
    {"list_commits", "get_commit_files", "get_file_diff", "get_file_contents",
     "get_current_branch", "list_branches", "validate_repo",
     "get_working_changes", "get_working_file_diff", "get_working_file_contents"}

\* The step is a call of an operation that only reads.
ReadStep == result'.op \in ReadOps

\* The step is the call the last result came from, made again: the same
\* operation with the same arguments, the backend behaving alike.
SameCall ==
    /\ result.op = result'.op
    /\ result.arg = result'.arg
    /\ result.fault = result'.fault
    /\ result.op \in {"get_file_diff", "get_working_file_diff"}
          => result.loaded = result'.loaded

MaxNear == 2

\* The lengths of the files on disk.
NearLengths == (BinaryCheckLen - 1)..(BinaryCheckLen + MaxNear)

\* The offsets a zero byte may be at: the first byte, and those next to the
\* end of the bytes examined.
NearOffsets == {0} \cup ((BinaryCheckLen - MaxNear)..(BinaryCheckLen + MaxNear - 1))

\* A file of n bytes: the letter a, but for zero bytes at the offsets of
\* zeros and, when bad, a lead byte of UTF-8 that nothing continues.
LongFile(n, zeros, bad) ==
    File([k \in 1..n |-> IF (k - 1) \in zeros THEN 0
                         ELSE IF bad /\ k = 2 THEN 195
                         ELSE 97])

\* The files on disk: no zero byte, one, or one on each side of the end of
\* the bytes examined.
LongFiles ==
    {LongFile(n, zeros, bad) :
        n \in NearLengths,
        zeros \in {{}} \cup {{o} : o \in NearOffsets}
                      \cup {{BinaryCheckLen - 1, BinaryCheckLen}},
        bad \in BOOLEAN}

\* What HEAD has at the path: nothing, a text, a binary blob, or bytes that
\* are not UTF-8.
HeadEntries == {Absent, File(<<97>>), File(<<0>>), File(<<195>>)}

BinaryInputs ==
    [kind : {"working"},
     head_tree : {Some(MkTree(old, Absent)) : old \in HeadEntries},
     tracked : {{FilePath}},
     disk : {MkTree(new, Absent) : new \in LongFiles}]

InitBinary ==
    /\ head = SymbolicHead("main")
    /\ index = CommitTree["c3"]
    /\ worktree = CommitTree["c3"]
    /\ input \in BinaryInputs
    /\ result = EnvResult

\* One call on the working directory drawn.
NextBinary ==
    /\ result = EnvResult
    /\ \E file_path \in FilePaths : GetWorkingFileContents(file_path)

SpecBinary == InitBinary /\ [][NextBinary]_vars

\* The offsets of the zero bytes of the file.
ZeroOffsets(e) == {k - 1 : k \in {j \in 1..Len(e.bytes) : e.bytes[j] = 0}}

\* get_working_file_contents has returned on the path of the file, and what
\* HEAD has there did not end the call before the file on disk was read.
DiskSideDecides ==
    /\ result.op = "get_working_file_contents"
    /\ result.arg = FilePath
    /\ NewEntry # Absent
    /\ OldEntry = Absent \/ IsText(OldEntry)

\* C26: the binary test of the file on disk looks at its first
\* min(length, 8000) bytes: a zero byte at an offset 0..7999 makes the
\* result binary, and a file whose zero bytes are all at offset 8000 or
\* later is not binary: when its bytes are UTF-8 it is the text of
\* new_content, with is_binary false.
C26_FirstBytesDecideBinary ==
    DiskSideDecides
       => /\ (\E o \in ZeroOffsets(NewEntry) : o <= 7999)
                => /\ result.ret = "Ok"
                   /\ result.value = FileContents(None, None, TRUE)
          /\ ((\A o \in ZeroOffsets(NewEntry) : o >= 8000) /\ utf8_valid(NewEntry.bytes))
                => /\ result.ret = "Ok"
                   /\ ~result.value.is_binary
                   /\ result.value.new_content = Some(TextOf(NewEntry))

\* A file of 8001 bytes whose one zero byte is the last is returned as a
\* text of 8001 characters.
C26_Witness ==
    /\ DiskSideDecides
    /\ Len(NewEntry.bytes) = 8001
    /\ ZeroOffsets(NewEntry) = {8000}
    /\ result.ret = "Ok"
    /\ ~result.value.is_binary
    /\ Len(result.value.new_content[1]) = 8001

(***************************************************************************)
(* SpecRace: two calls of checkout_branch on one working tree, step by     *)
(* step, while the user edits files                                        *)
(***************************************************************************)
Calls == {1, 2}

\* Where a call is: before its guard, before find_branch, before set_head,
\* before checkout_tree, or returned.
PastGuard == {"find_branch", "set_head", "checkout_tree"}

NoEdit == [kind |-> "noedit", data |-> 0]

Running == "running"

\* The calls in flight: the branch asked for, the position, the reference
\* found and what the call returned; and, per path, what the user wrote
\* there while a call was past its guard.
InitRace ==
    /\ head = SymbolicHead("main")
    /\ index = CommitTree["c3"]
    /\ worktree = CommitTree["c3"]
    /\ input \in [kind : {"race"},
                  name : [Calls -> CheckoutNames],
                  pc : {[c \in Calls |-> "guard"]},
                  branch : {[c \in Calls |-> NoRef]},
                  ret : {[c \in Calls |-> Running]},
                  late : {[p \in Paths |-> NoEdit]}]
    /\ result = EnvResult

\* The call c returns r.
Return(c, r) == [input EXCEPT !.pc[c] = "done", !.ret[c] = r]

\* The statuses are listed and the guard is tested.
GuardStep(c) ==
    /\ input.pc[c] = "guard"
    /\ input' = IF has_changes(HeadTree(head), index, worktree)
                THEN Return(c, ErrUncommitted)
                ELSE [input EXCEPT !.pc[c] = "find_branch"]
    /\ UNCHANGED <<repoVars, result>>

\* The branch is looked for among the local ones.
FindBranchStep(c) ==
    /\ input.pc[c] = "find_branch"
    /\ LET branch == find_branch(input.name[c])
       IN  input' = IF branch = NoRef
                    THEN Return(c, ErrBranchNotFound)
                    ELSE [input EXCEPT !.pc[c] = "set_head", !.branch[c] = branch]
    /\ UNCHANGED <<repoVars, result>>

\* A mutant of SetHeadStep: the call waits while the other one is between
\* its guard and its return.
SetHeadStep_locked(c, fails) ==
    /\ input.pc[c] = "set_head"
    /\ \A d \in Calls \ {c} : input.pc[d] \notin PastGuard
    /\ IF fails
       THEN /\ input' = Return(c, ErrSetHead)
            /\ UNCHANGED head
       ELSE /\ head' = set_head(input.branch[c])
            /\ input' = [input EXCEPT !.pc[c] = "checkout_tree"]
    /\ UNCHANGED <<index, worktree, result>>

\* HEAD is pointed at the branch.
SetHeadStep(c, fails) ==
    /\ input.pc[c] = "set_head"
    /\ IF fails
       THEN /\ input' = Return(c, ErrSetHead)
            /\ UNCHANGED head
       ELSE /\ head' = set_head(input.branch[c])
            /\ input' = [input EXCEPT !.pc[c] = "checkout_tree"]
    /\ UNCHANGED <<index, worktree, result>>

\* The tree of the branch is checked out with force; a checkout that fails
\* stops after writing the paths of done.
CheckoutTreeStep(c, fails) ==
    /\ input.pc[c] = "checkout_tree"
    /\ LET target == CommitTree[input.branch[c].tip]
       IN  IF fails
           THEN /\ \E done \in SUBSET Paths :
                      /\ done # Paths
                      /\ worktree' = [p \in Paths |->
                            IF p \in done
                            THEN force_checkout_worktree(target, index, worktree)[p]
                            ELSE worktree[p]]
                /\ input' = Return(c, ErrCheckout)
                /\ UNCHANGED index
           ELSE /\ index' = force_checkout_index(target, index, worktree)
                /\ worktree' = force_checkout_worktree(target, index, worktree)
                /\ input' = Return(c, "Ok")
    /\ UNCHANGED <<head, result>>

\* The user writes, replaces or removes a file on disk.
EditFile(p, e) ==
    /\ worktree[p] # e
    /\ worktree' = [worktree EXCEPT ![p] = e]
    /\ input' = [input EXCEPT !.late[p] =
                    IF \E c \in Calls : input.pc[c] \in PastGuard THEN e ELSE NoEdit]
    /\ UNCHANGED <<head, index, result>>

NextRace ==
    \/ \E c \in Calls : GuardStep(c)
    \/ \E c \in Calls : FindBranchStep(c)
    \/ \E c \in Calls, fails \in BOOLEAN : SetHeadStep(c, fails)
    \/ \E c \in Calls, fails \in BOOLEAN : CheckoutTreeStep(c, fails)
    \/ \E p \in Paths, e \in Entries : EditFile(p, e)

SpecRace == InitRace /\ [][NextRace]_vars

\* C27: the guard, set_head and the forced checkout of the tree are steps
\* of their own and nothing locks them: whatever the other call is doing
\* and whatever the user has written since the guard, a call that has
\* passed its guard can take its next step, so that two calls on different
\* branches can both succeed with HEAD on the branch of one and the files
\* of the other's tree on disk, and a file written after the guard is
\* overwritten.
C27_NoLockBetweenSteps ==
    \A c \in Calls :
        /\ input.pc[c] = "guard" => ENABLED GuardStep(c)
        /\ input.pc[c] = "find_branch" => ENABLED FindBranchStep(c)
        /\ input.pc[c] = "set_head" => ENABLED SetHeadStep(c, FALSE)
        /\ input.pc[c] = "checkout_tree" => ENABLED CheckoutTreeStep(c, FALSE)

\* Both calls have succeeded, HEAD names the branch of one, the working
\* tree is the tree of the other's branch, which is another tree, and a
\* file the user wrote after the guards is no longer what the user wrote.
C27_Witness ==
    \E c \in Calls, d \in Calls :
        /\ input.ret[c] = "Ok"
        /\ input.ret[d] = "Ok"
        /\ input.name[c] # input.name[d]
        /\ head = SymbolicHead(input.name[c])
        /\ worktree = CommitTree[LocalBranches[input.name[d]]]
        /\ worktree # CommitTree[LocalBranches[input.name[c]]]
        /\ \E p \in Paths : input.late[p] # NoEdit /\ worktree[p] # input.late[p]

=============================================================================
